---------------------------- MODULE Spec2Model ----------------------------
(***************************************************************************)
(* State-machine model of the Geni workspace store (src/src/store/index.ts)*)
(* and of the UI handlers that drive it (Sidebar.tsx, CollectionInfo.tsx,  *)
(* DragDropWrapper.tsx).  The persistence backend (the Tauri commands) is  *)
(* not part of the TypeScript sources; it is modelled from section 6 of    *)
(* the specification as a small database behind an asynchronous boundary:  *)
(* a call is issued, executed by the backend at some later step, and its   *)
(* response is delivered to the awaiting continuation at a still later     *)
(* step, in any order relative to other calls.                             *)
(***************************************************************************)
EXTENDS Integers, Sequences, FiniteSets, TLC

VARIABLES
    tabs,                      \* AppState.tabs: Tab[]
    activeTabId,               \* AppState.activeTabId
    selectedCollectionId,      \* AppState.selectedCollectionId
    collections,               \* AppState.collections: Collection[]
    collectionRequests,        \* AppState.collectionRequests, in key insertion order
    collectionsLoading,        \* AppState.collectionsLoading
    collectionRequestsLoading, \* AppState.collectionRequestsLoading
    idCounter,                 \* number of ids generateId has handed out
    dbCollections,             \* backend: the persisted collections
    dbRequests,                \* backend: the persisted requests
    dbIds,                     \* backend: number of ids it has generated
    environments,              \* AppState.environments: Environment[]
    activeEnvironment,         \* AppState.activeEnvironment
    history,                   \* AppState.history: RequestHistory[]
    environmentsLoading,       \* AppState.environmentsLoading
    historyLoading,            \* AppState.historyLoading
    dbEnvironments,            \* backend: the persisted environments
    dbHistory,                 \* backend: the persisted request history
    activeDragId,              \* Sidebar: id of the item being dragged
    dragOverTarget,            \* Sidebar: id of the drop target hovered
    toast,                     \* the notification raised last, by kind
    dnd,                       \* DndContext: the drag under way, if any
    calls,                     \* backend invocations in flight, in issue order
    ev                         \* the store operation performed by the last step

vars == <<tabs, activeTabId, selectedCollectionId, collections,
          collectionRequests, collectionsLoading, collectionRequestsLoading,
          idCounter, dbCollections, dbRequests, dbIds, environments,
          activeEnvironment, history, environmentsLoading, historyLoading,
          dbEnvironments, dbHistory, activeDragId, dragOverTarget, toast, dnd,
          calls, ev>>

\* the environments and the history, with their loading flags
envVars == <<environments, activeEnvironment, history, environmentsLoading,
             historyLoading>>

storeVars == <<tabs, activeTabId, selectedCollectionId, collections,
               collectionRequests, collectionsLoading,
               collectionRequestsLoading, envVars>>

dbVars == <<dbCollections, dbRequests, dbIds, dbEnvironments, dbHistory>>

\* the state the components keep outside the store
uiVars == <<activeDragId, dragOverTarget, toast, dnd>>

(***************************************************************************)
(* Bounds of the model.                                                    *)
(***************************************************************************)
MaxTabIds == 3      \* tabs created in one run
MaxCalls == 2       \* backend invocations in flight at once
MaxLoads == 1       \* the same, where no two invocations need to overlap
MaxInserts == 1     \* records the backend creates in one run
MaxListed == 2      \* cached entries beyond which no further move is started

(***************************************************************************)
(* Values.  null / undefined are one value, Null; a tab id is a positive   *)
(* number and NoTab stands for the null activeTabId.  Strings that the     *)
(* program only stores and compares are TLA+ strings; strings it builds or *)
(* encodes (credentials, header values) are sequences of character codes.  *)
(***************************************************************************)
Null == "null"
NoTab == 0
Root == "root"
CollIds == {"A", "B", "C"}
ReqIds == {"R1", "R2"}

Range(s) == {s[i] : i \in 1..Len(s)}

\* tabs.findIndex((tab) => tab.id === tabId): 0-based, -1 when absent
TabIndex(ts, tabId) ==
    IF \E i \in 1..Len(ts) : ts[i].id = tabId
    THEN (CHOOSE i \in 1..Len(ts) :
            ts[i].id = tabId /\ \A j \in 1..(i - 1) : ts[j].id # tabId) - 1
    ELSE -1

\* array[index] of a JavaScript array (0-based), as <<>> or <<element>>
At(s, index) == IF index + 1 \in 1..Len(s) THEN <<s[index + 1]>> ELSE <<>>

Min(a, b) == IF a <= b THEN a ELSE b

\* { ...base, ...patch } on objects modelled as functions over field names
Spread(base, patch) ==
    [f \in (DOMAIN base) \cup (DOMAIN patch) |->
        IF f \in DOMAIN patch THEN patch[f] ELSE base[f]]

EmptyHeaders == <<>>

\* Collection.auth: type "absent" when there is none; username and password
\* are strings as sequences of character codes, "" and <<>> also standing
\* for a field that is missing
NoAuth == [type |-> "absent", username |-> <<>>, password |-> <<>>, token |-> ""]

Coll(id, parent) ==
    [id |-> id, name |-> id, parent_id |-> parent, auth |-> NoAuth]

Req(id, collectionId) ==
    [id |-> id, name |-> id, method |-> "GET", url |-> "https://",
     headers |-> EmptyHeaders, body |-> Null, collection_id |-> collectionId]

(***************************************************************************)
(* Tabs                                                                    *)
(***************************************************************************)
\* createNewRequest(); path_params, created_at and updated_at are carried
\* along unchanged by every operation and are left out of the record
CreateNewRequest ==
    [id |-> Null, name |-> "New Request", method |-> "GET", url |-> "https://",
     headers |-> EmptyHeaders, body |-> Null, collection_id |-> Null]

\* collectionId || request?.collection_id
CollectionIdOr(collectionId, seed) ==
    IF collectionId # Null THEN collectionId
    ELSE IF seed = <<>> THEN Null ELSE seed[1].collection_id

\* addTab with saved: true whatever the request
NewTabSaved(id, seed, collectionId) ==
    LET base == IF seed = <<>> THEN CreateNewRequest
                ELSE Spread(CreateNewRequest, seed[1])
        newRequest == [base EXCEPT !.collection_id = CollectionIdOr(collectionId, seed)]
    IN [id |-> id, name |-> newRequest.name, request |-> newRequest,
        response |-> <<>>, loading |-> FALSE, saved |-> TRUE]

\* the tab addTab builds; seed is <<>> (no request argument) or <<request>>
NewTab(id, seed, collectionId) ==
    LET base == IF seed = <<>> THEN CreateNewRequest
                ELSE Spread(CreateNewRequest, seed[1])
        newRequest == [base EXCEPT !.collection_id = CollectionIdOr(collectionId, seed)]
    IN [id |-> id, name |-> newRequest.name, request |-> newRequest,
        response |-> <<>>, loading |-> FALSE, saved |-> newRequest.id # Null]

\* generateId(): a fresh id each time
GenerateId == idCounter + 1

AddTab(seed, collectionId) ==
    /\ idCounter < MaxTabIds
    /\ idCounter' = GenerateId
    /\ tabs' = Append(tabs, NewTab(GenerateId, seed, collectionId))
    /\ activeTabId' = GenerateId
    /\ ev' = [op |-> "addTab", tabId |-> GenerateId, seed |-> seed]

\* Math.min(currentIndex, newTabs.length - 1)
NextIndexNoClamp(currentIndex, newLength) == currentIndex

NextIndex(currentIndex, newLength) == Min(currentIndex, newLength - 1)

CloseTabResult(ts, active, tabId) ==
    LET newTabs == SelectSeq(ts, LAMBDA tab : tab.id # tabId)
        currentIndex == TabIndex(ts, tabId)
        nextIndex == NextIndex(currentIndex, Len(newTabs))
    IN [tabs |-> newTabs,
        activeTabId |->
            IF active = tabId
            THEN IF Len(newTabs) > 0
                 THEN IF At(newTabs, nextIndex) # <<>>
                      THEN At(newTabs, nextIndex)[1].id ELSE NoTab
                 ELSE NoTab
            ELSE active]

CloseTab(tabId) ==
    LET r == CloseTabResult(tabs, activeTabId, tabId)
    IN /\ tabs' = r.tabs
       /\ activeTabId' = r.activeTabId
       /\ ev' = [op |-> "closeTab", tabId |-> tabId,
                 index |-> TabIndex(tabs, tabId),
                 wasActive |-> (activeTabId = tabId)]

SetActiveTab(tabId) ==
    /\ activeTabId' = tabId
    /\ ev' = [op |-> "setActiveTab", tabId |-> tabId]

\* one tab with its request draft patched: updateTabRequest's map callback
PatchedTab(tab, updates) ==
    [tab EXCEPT !.request = Spread(tab.request, updates),
                !.name = IF "name" \in DOMAIN updates /\ updates.name # ""
                         THEN updates.name ELSE tab.request.name,
                !.saved = FALSE]

UpdateTabRequest(tabId, updates) ==
    /\ tabs' = [i \in 1..Len(tabs) |->
                  IF tabs[i].id = tabId THEN PatchedTab(tabs[i], updates)
                  ELSE tabs[i]]
    /\ ev' = [op |-> "updateTabRequest", tabId |-> tabId, updates |-> updates]

(***************************************************************************)
(* The request cache: Record<string, HttpRequest[]>, a sequence of         *)
(* [key, requests] entries in insertion order (the order Object.entries    *)
(* walks them).                                                            *)
(***************************************************************************)
CacheKeys(cr) == {cr[i].key : i \in 1..Len(cr)}

CacheIndex(cr, k) == CHOOSE i \in 1..Len(cr) : cr[i].key = k

\* collectionRequests[collectionId] || []
CacheGet(cr, k) ==
    IF k \in CacheKeys(cr) THEN cr[CacheIndex(cr, k)].requests ELSE <<>>

\* { ...collectionRequests, [k]: requests }
CachePut(cr, k, requests) ==
    IF k \in CacheKeys(cr)
    THEN [cr EXCEPT ![CacheIndex(cr, k)].requests = requests]
    ELSE Append(cr, [key |-> k, requests |-> requests])

\* delete collectionRequests[k] for every k in ks
CacheDelete(cr, ks) == SelectSeq(cr, LAMBDA e : e.key \notin ks)

\* the ids listed in bucket k
BucketIds(cr, k) == {r.id : r \in Range(CacheGet(cr, k))}

(***************************************************************************)
(* Backend (modelled from the specification's table of operations).        *)
(* dbCollections and dbRequests are functions from the ids that exist to   *)
(* the persisted records; lists are returned in a fixed order.             *)
(***************************************************************************)
CollOrder == <<"A", "B", "C">>
ReqOrder == <<"R1", "R2", "N1", "N2", "N3">>

\* the ids the backend gives to the records it creates, in order
NewIds == <<"N1", "N2", "N3">>

\* f with key k set to v, k added when absent
Upsert(f, k, v) == [x \in (DOMAIN f) \cup {k} |-> IF x = k THEN v ELSE f[x]]

\* list collections
DbListCollections(db) ==
    LET ids == SelectSeq(CollOrder, LAMBDA c : c \in DOMAIN db)
    IN [i \in 1..Len(ids) |-> db[ids[i]]]

\* list requests of one collection
DbListRequests(db, collectionId) ==
    LET ids == SelectSeq(ReqOrder, LAMBDA r :
                   r \in DOMAIN db /\ db[r].collection_id = collectionId)
    IN [i \in 1..Len(ids) |-> db[ids[i]]]

(***************************************************************************)
(* Invocations.  A call is [cmd, k, st, arg, res]: the backend command,    *)
(* the store function awaiting it, its stage ("sent", then "ok" or "err"   *)
(* once the backend has executed it), its arguments and its result.        *)
(***************************************************************************)
Invoke(cmd, k, arg) ==
    [cmd |-> cmd, k |-> k, st |-> "sent", arg |-> arg, res |-> <<>>]

RemoveAt(s, i) == SubSeq(s, 1, i - 1) \o SubSeq(s, i + 1, Len(s))

\* save request: insert under a new id when the payload has none, else
\* write the record under its id; the stored record is the result
DbSaveRequest(payload) ==
    LET id == IF payload.id # Null THEN payload.id ELSE NewIds[dbIds + 1]
        stored == [payload EXCEPT !.id = id]
    IN [cols |-> dbCollections, reqs |-> Upsert(dbRequests, id, stored),
        ids |-> IF payload.id # Null THEN dbIds ELSE dbIds + 1,
        res |-> stored]

\* move collection: the parent is set as asked; no parent and the reserved
\* "root" both mean top level
DbMoveCollection(collectionId, newParentId) ==
    IF collectionId \in DOMAIN dbCollections
    THEN [dbCollections EXCEPT ![collectionId].parent_id =
              IF newParentId = Root THEN Null ELSE newParentId]
    ELSE dbCollections

\* ids and every collection below them in the database
RECURSIVE DbSubtree(_, _, _)
DbSubtree(db, ids, depth) ==
    IF depth = 0 THEN ids
    ELSE DbSubtree(db, ids \cup {c \in DOMAIN db : db[c].parent_id \in ids},
                   depth - 1)

\* f restricted to the keys in ks
Restrict(f, ks) == [x \in ks |-> f[x]]

\* delete collection: the collection goes with the collections below it
\* and the requests they hold
DbDeleteCollection(id) ==
    LET gone == DbSubtree(dbCollections, {id}, Cardinality(DOMAIN dbCollections))
    IN [cols |-> Restrict(dbCollections, (DOMAIN dbCollections) \ gone),
        reqs |-> Restrict(dbRequests,
                   {r \in DOMAIN dbRequests : dbRequests[r].collection_id \notin gone}),
        ids |-> dbIds, res |-> <<>>]

\* move request: the request's collection is set as asked; the reserved
\* "root" means no collection
DbMoveRequest(requestId, newCollectionId) ==
    IF requestId \in DOMAIN dbRequests
    THEN [dbRequests EXCEPT ![requestId].collection_id =
              IF newCollectionId = Root THEN Null ELSE newCollectionId]
    ELSE dbRequests

\* rename request
DbRenameRequest(requestId, name) ==
    IF requestId \in DOMAIN dbRequests
    THEN [dbRequests EXCEPT ![requestId].name = name]
    ELSE dbRequests

\* the id the next created collection gets
DbNextCollectionId(db) ==
    SelectSeq(CollOrder, LAMBDA c : c \notin DOMAIN db)[1]

\* rename collection, set collection auth: the fields of a collection that
\* exists are overwritten
DbPatchCollection(collectionId, patch) ==
    IF collectionId \in DOMAIN dbCollections
    THEN [dbCollections EXCEPT
             ![collectionId] = Spread(dbCollections[collectionId], patch)]
    ELSE dbCollections

\* environments and history: the ids the backend hands out, in order
EnvOrder == <<"E1", "E2">>
EnvIds == Range(EnvOrder)

Env(id, name, active) == [id |-> id, name |-> name, is_active |-> active]

\* list environments
DbListEnvironments(db) ==
    LET present == SelectSeq(EnvOrder, LAMBDA e : e \in DOMAIN db)
    IN [i \in 1..Len(present) |-> db[present[i]]]

\* active environment: the one flagged active, or none
DbActiveEnvironment(db) ==
    SelectSeq(DbListEnvironments(db), LAMBDA e : e.is_active)

\* the id the next created environment gets
DbNextEnvId(db) ==
    SelectSeq(EnvOrder, LAMBDA e : e \notin DOMAIN db)[1]

\* the commands that work on the environments and the history
EnvCmds == {"get_environments", "get_active_environment",
            "create_environment", "delete_environment",
            "set_active_environment", "update_environment",
            "get_request_history",
            "clear_request_history"}

\* the backend's effect on environments and history and its result
DbEnvAfter(c) ==
    CASE c.cmd = "get_environments" ->
            [envs |-> dbEnvironments, hist |-> dbHistory,
             res |-> DbListEnvironments(dbEnvironments)]
      [] c.cmd = "get_active_environment" ->
            [envs |-> dbEnvironments, hist |-> dbHistory,
             res |-> DbActiveEnvironment(dbEnvironments)]
      [] c.cmd = "create_environment" ->
            LET id == DbNextEnvId(dbEnvironments)
                created == Env(id, c.arg.name, FALSE)
            IN [envs |-> Upsert(dbEnvironments, id, created),
                hist |-> dbHistory, res |-> created]
      [] c.cmd = "delete_environment" ->
            [envs |-> Restrict(dbEnvironments,
                               (DOMAIN dbEnvironments) \ {c.arg.id}),
             hist |-> dbHistory, res |-> <<>>]
      [] c.cmd = "set_active_environment" ->
            [envs |-> [e \in DOMAIN dbEnvironments |->
                          [dbEnvironments[e] EXCEPT
                              !.is_active = (e = c.arg.id)]],
             hist |-> dbHistory, res |-> <<>>]
      [] c.cmd = "update_environment" ->
            LET updated == [dbEnvironments[c.arg.id] EXCEPT !.name = c.arg.name]
            IN [envs |-> Upsert(dbEnvironments, c.arg.id, updated),
                hist |-> dbHistory, res |-> updated]
      [] c.cmd = "get_request_history" ->
            [envs |-> dbEnvironments, hist |-> dbHistory,
             res |-> SubSeq(dbHistory, 1, Min(c.arg.limit, Len(dbHistory)))]
      [] c.cmd = "clear_request_history" ->
            [envs |-> dbEnvironments, hist |-> <<>>, res |-> <<>>]
      [] OTHER ->
            [envs |-> dbEnvironments, hist |-> dbHistory, res |-> <<>>]

\* import collection bundle: the bundle's collection and, below it, a chain
\* of folders nested depth deep, each with the next free id
RECURSIVE DbImportChain(_, _, _)
DbImportChain(db, parent, n) ==
    IF n = 0 THEN db
    ELSE LET id == DbNextCollectionId(db)
         IN DbImportChain(Upsert(db, id, Coll(id, parent)), id, n - 1)

\* whether the backend can execute the command within the model's bounds
DbCan(c) ==
    /\ (c.cmd = "save_request" /\ c.arg.payload.id = Null) => dbIds < MaxInserts
    /\ c.cmd = "create_environment" => EnvIds \ DOMAIN dbEnvironments # {}
    /\ c.cmd = "update_environment" => c.arg.id \in DOMAIN dbEnvironments
    /\ c.cmd = "create_collection" => CollIds \ DOMAIN dbCollections # {}
    /\ c.cmd = "import_postman_collection" =>
          Cardinality(CollIds \ DOMAIN dbCollections) > c.arg.jsonData

\* the backend's effect on the database and its result, per command
DbAfter(c) ==
    CASE c.cmd = "get_requests" ->
            [cols |-> dbCollections, reqs |-> dbRequests, ids |-> dbIds,
             res |-> DbListRequests(dbRequests, c.arg.collectionId)]
      [] c.cmd = "save_request" -> DbSaveRequest(c.arg.payload)
      [] c.cmd = "get_collections" ->
            [cols |-> dbCollections, reqs |-> dbRequests, ids |-> dbIds,
             res |-> DbListCollections(dbCollections)]
      [] c.cmd = "move_request" ->
            [cols |-> dbCollections,
             reqs |-> DbMoveRequest(c.arg.requestId, c.arg.newCollectionId),
             ids |-> dbIds, res |-> <<>>]
      [] c.cmd = "update_request_name" ->
            [cols |-> dbCollections,
             reqs |-> DbRenameRequest(c.arg.requestId, c.arg.name),
             ids |-> dbIds, res |-> <<>>]
      [] c.cmd = "send_request" ->
            [cols |-> dbCollections, reqs |-> dbRequests, ids |-> dbIds,
             res |-> [status |-> 200]]
      [] c.cmd = "delete_collection" -> DbDeleteCollection(c.arg.id)
      [] c.cmd = "create_collection" ->
            LET id == DbNextCollectionId(dbCollections)
                created == [Coll(id, c.arg.parentId) EXCEPT !.name = c.arg.name]
            IN [cols |-> Upsert(dbCollections, id, created),
                reqs |-> dbRequests, ids |-> dbIds, res |-> created]
      [] c.cmd = "update_collection_name" ->
            [cols |-> DbPatchCollection(c.arg.collectionId,
                                        [name |-> c.arg.name]),
             reqs |-> dbRequests, ids |-> dbIds, res |-> <<>>]
      [] c.cmd = "update_collection_auth" ->
            [cols |-> DbPatchCollection(c.arg.collectionId,
                                        [auth |-> c.arg.auth]),
             reqs |-> dbRequests, ids |-> dbIds, res |-> <<>>]
      [] c.cmd = "delete_request" ->
            [cols |-> dbCollections,
             reqs |-> Restrict(dbRequests, (DOMAIN dbRequests) \ {c.arg.id}),
             ids |-> dbIds, res |-> <<>>]
      [] c.cmd = "import_postman_collection" ->
            [cols |-> DbImportChain(dbCollections, Null, c.arg.jsonData + 1),
             reqs |-> dbRequests, ids |-> dbIds,
             res |-> Coll(DbNextCollectionId(dbCollections), Null)]
      [] c.cmd = "move_collection" ->
            [cols |-> DbMoveCollection(c.arg.collectionId, c.arg.newParentId),
             reqs |-> dbRequests, ids |-> dbIds, res |-> <<>>]
      [] OTHER ->
            [cols |-> dbCollections, reqs |-> dbRequests, ids |-> dbIds,
             res |-> <<>>]

\* the backend executes call i successfully
BackendOk(i) ==
    /\ i \in 1..Len(calls)
    /\ calls[i].st = "sent"
    /\ DbCan(calls[i])
    /\ LET after == DbAfter(calls[i])
           env == DbEnvAfter(calls[i])
       IN /\ dbCollections' = after.cols
          /\ dbRequests' = after.reqs
          /\ dbIds' = after.ids
          /\ dbEnvironments' = env.envs
          /\ dbHistory' = env.hist
          /\ calls' = [calls EXCEPT
                          ![i].st = "ok",
                          ![i].res = IF calls[i].cmd \in EnvCmds
                                     THEN env.res ELSE after.res]
    /\ ev' = [op |-> "backend", cmd |-> calls[i].cmd, ok |-> TRUE]
    /\ UNCHANGED <<storeVars, idCounter, uiVars>>

\* the backend fails call i: no effect on the database
BackendErr(i) ==
    /\ i \in 1..Len(calls)
    /\ calls[i].st = "sent"
    /\ calls' = [calls EXCEPT ![i].st = "err"]
    /\ ev' = [op |-> "backend", cmd |-> calls[i].cmd, ok |-> FALSE]
    /\ UNCHANGED <<storeVars, idCounter, dbVars, uiVars>>

(***************************************************************************)
(* loadCollectionRequests                                                  *)
(***************************************************************************)
\* up to the await: the loading flag and the invocation
LoadCollectionRequestsBegin(collectionId, loading, cs) ==
    [loading |-> [loading EXCEPT ![collectionId] = TRUE],
     calls |-> Append(cs, Invoke("get_requests", "loadCollectionRequests",
                                 [collectionId |-> collectionId]))]

\* after the await: the bucket is replaced on success, the flag cleared
LoadCollectionRequestsDone(i) ==
    /\ i \in 1..Len(calls)
    /\ calls[i].k = "loadCollectionRequests"
    /\ calls[i].st \in {"ok", "err"}
    /\ LET c == calls[i].arg.collectionId
       IN /\ collectionRequests' =
                IF calls[i].st = "ok"
                THEN CachePut(collectionRequests, c, calls[i].res)
                ELSE collectionRequests
          /\ collectionRequestsLoading' =
                [collectionRequestsLoading EXCEPT ![c] = FALSE]
          /\ ev' = [op |-> "loadCollectionRequests", collectionId |-> c,
                    ok |-> (calls[i].st = "ok")]
    /\ calls' = RemoveAt(calls, i)
    /\ UNCHANGED <<tabs, activeTabId, selectedCollectionId, collections,
                   collectionsLoading, idCounter, dbVars, envVars>>

(***************************************************************************)
(* saveRequest                                                             *)
(***************************************************************************)
\* up to the await: the payload is built from the tab as it is now
SaveRequestCall(tabId, name, collectionId) ==
    /\ \E i \in 1..Len(tabs) : tabs[i].id = tabId
    /\ LET tab == tabs[TabIndex(tabs, tabId) + 1]
           payload == [tab.request EXCEPT !.name = name,
                                          !.collection_id = collectionId]
       IN calls' = Append(calls, Invoke("save_request", "saveRequest",
                      [tabId |-> tabId, name |-> name,
                       collectionId |-> collectionId, payload |-> payload]))
    /\ ev' = [op |-> "saveRequestCall", tabId |-> tabId]
    /\ UNCHANGED <<storeVars, idCounter, dbVars>>

\* the tab as saveRequest rewrites it on success
SavedTabAll(t, tabId, name, savedRequest, collectionId) ==
    [t EXCEPT !.name = name,
              !.saved = TRUE,
              !.request = [savedRequest EXCEPT !.collection_id = collectionId]]

SavedTab(t, tabId, name, savedRequest, collectionId) ==
    IF t.id = tabId
    THEN [t EXCEPT !.name = name,
                   !.saved = TRUE,
                   !.request = [savedRequest EXCEPT !.collection_id = collectionId]]
    ELSE t

\* after the await: on success the tab takes the saved request and the
\* collection's requests are reloaded; on failure the error is rethrown
SaveRequestDone(i) ==
    /\ i \in 1..Len(calls)
    /\ calls[i].k = "saveRequest"
    /\ calls[i].st \in {"ok", "err"}
    /\ LET a == calls[i].arg
           rest == RemoveAt(calls, i)
           b == LoadCollectionRequestsBegin(a.collectionId,
                    collectionRequestsLoading, rest)
       IN IF calls[i].st = "ok"
          THEN /\ tabs' = [j \in 1..Len(tabs) |->
                            SavedTab(tabs[j], a.tabId, a.name, calls[i].res,
                                     a.collectionId)]
               /\ IF a.collectionId # Null
                  THEN /\ collectionRequestsLoading' = b.loading
                       /\ calls' = b.calls
                  ELSE /\ calls' = rest
                       /\ UNCHANGED collectionRequestsLoading
               /\ ev' = [op |-> "saveRequest", tabId |-> a.tabId, ok |-> TRUE,
                         threw |-> FALSE]
          ELSE /\ calls' = rest
               /\ ev' = [op |-> "saveRequest", tabId |-> a.tabId, ok |-> FALSE,
                         threw |-> TRUE]
               /\ UNCHANGED <<tabs, collectionRequestsLoading>>
    /\ UNCHANGED <<activeTabId, selectedCollectionId, collections,
                   collectionRequests, collectionsLoading, idCounter, dbVars,
                   envVars>>

(***************************************************************************)
(* UI handlers that open and select                                        *)
(***************************************************************************)
\* Sidebar.handleSelectCollection: select, clear the active tab, load
HandleSelectCollection(collectionId) ==
    /\ \E i \in 1..Len(collections) : collections[i].id = collectionId
    /\ selectedCollectionId' = collectionId
    /\ activeTabId' = NoTab
    /\ LET b == LoadCollectionRequestsBegin(collectionId,
                    collectionRequestsLoading, calls)
       IN /\ collectionRequestsLoading' = b.loading
          /\ calls' = b.calls
    /\ ev' = [op |-> "handleSelectCollection", collectionId |-> collectionId]
    /\ UNCHANGED <<tabs, collections, collectionRequests, collectionsLoading,
                   idCounter, dbVars, envVars, uiVars>>

\* Sidebar.handleLoadRequest on the request at position i of bucket k
HandleLoadRequest(k, i) ==
    /\ k \in CacheKeys(collectionRequests)
    /\ i \in 1..Len(CacheGet(collectionRequests, k))
    /\ LET request == CacheGet(collectionRequests, k)[i]
           existing == SelectSeq(tabs, LAMBDA tab : tab.request.id = request.id)
       IN /\ request.id # Null
          /\ IF existing # <<>>
             THEN /\ SetActiveTab(existing[1].id)
                  /\ UNCHANGED <<tabs, idCounter>>
             ELSE AddTab(<<request>>, Null)
    /\ UNCHANGED <<selectedCollectionId, collections, collectionRequests,
                   collectionsLoading, collectionRequestsLoading, dbVars, calls,
                   envVars, uiVars>>

\* the collection whose overview (CollectionInfo) App renders: no active
\* tab, and the selected collection is in the list
OverviewOf ==
    IF /\ ~\E i \in 1..Len(tabs) : tabs[i].id = activeTabId
       /\ \E i \in 1..Len(collections) : collections[i].id = selectedCollectionId
    THEN selectedCollectionId ELSE Null

\* CollectionInfo: click on row i of the overview's request list
OverviewRequestClick(i) ==
    /\ OverviewOf # Null
    /\ i \in 1..Min(10, Len(CacheGet(collectionRequests, OverviewOf)))
    /\ AddTab(<<CacheGet(collectionRequests, OverviewOf)[i]>>, Null)
    /\ UNCHANGED <<selectedCollectionId, collections, collectionRequests,
                   collectionsLoading, collectionRequestsLoading, dbVars, calls,
                   envVars, uiVars>>

\* TabBar / Sidebar "new request" buttons
NewRequestClick ==
    /\ AddTab(<<>>, Null)
    /\ UNCHANGED <<selectedCollectionId, collections, collectionRequests,
                   collectionsLoading, collectionRequestsLoading, dbVars, calls,
                   envVars, uiVars>>

\* TabBar: close button of a tab
CloseTabClick(tabId) ==
    /\ \E i \in 1..Len(tabs) : tabs[i].id = tabId
    /\ CloseTab(tabId)
    /\ UNCHANGED <<selectedCollectionId, collections, collectionRequests,
                   collectionsLoading, collectionRequestsLoading, idCounter,
                   dbVars, calls, envVars, uiVars>>

\* TabBar: click on a tab
TabClick(tabId) ==
    /\ \E i \in 1..Len(tabs) : tabs[i].id = tabId
    /\ SetActiveTab(tabId)
    /\ UNCHANGED <<tabs, selectedCollectionId, collections, collectionRequests,
                   collectionsLoading, collectionRequestsLoading, idCounter,
                   dbVars, calls, envVars, uiVars>>

\* the tab RequestPanel shows: the active tab, as <<>> or <<tab>>
ActiveTab == SelectSeq(tabs, LAMBDA tab : tab.id = activeTabId)

\* RequestPanel: an edit of the shown draft (url, method, headers, body)
EditRequest(updates) ==
    /\ ActiveTab # <<>>
    /\ UpdateTabRequest(ActiveTab[1].id, updates)
    /\ UNCHANGED <<activeTabId, selectedCollectionId, collections,
                   collectionRequests, collectionsLoading,
                   collectionRequestsLoading, idCounter, dbVars, calls,
                   envVars, uiVars>>

\* RequestPanel.handleSave: the save dialog's name and collection
HandleSave(saveName, saveCollectionId) ==
    /\ ActiveTab # <<>>
    /\ saveName # ""
    /\ SaveRequestCall(ActiveTab[1].id, saveName, saveCollectionId)
    /\ UNCHANGED uiVars

(***************************************************************************)
(* Initial states                                                          *)
(***************************************************************************)
NoLoading == [c \in CollIds \cup {Root} |-> FALSE]

\* no environment and no history, in the store or behind it
InitEnvironments ==
    /\ environments = <<>>
    /\ activeEnvironment = <<>>
    /\ history = <<>>
    /\ environmentsLoading = FALSE
    /\ historyLoading = FALSE
    /\ dbEnvironments = <<>>
    /\ dbHistory = <<>>

\* the Sidebar as mounted: nothing dragged, no notification raised
InitSidebar ==
    /\ activeDragId = Null
    /\ dragOverTarget = Null
    /\ toast = "none"
    /\ dnd = <<>>

\* the store as created, before anything is loaded
InitIdle ==
    /\ selectedCollectionId = Null
    /\ collectionsLoading = FALSE
    /\ collectionRequestsLoading = NoLoading
    /\ dbIds = 0
    /\ calls = <<>>
    /\ ev = [op |-> "init"]
    /\ InitEnvironments
    /\ InitSidebar

InitStore ==
    /\ InitIdle
    /\ tabs = <<>>
    /\ activeTabId = NoTab
    /\ idCounter = 0

(***************************************************************************)
(* loadCollections and moveCollection                                      *)
(***************************************************************************)
\* up to the await: the loading flag and the invocation
LoadCollectionsBegin(cs) ==
    Append(cs, Invoke("get_collections", "loadCollections", <<>>))

\* after the await: the list is replaced on success, the flag cleared
LoadCollectionsDone(i) ==
    /\ i \in 1..Len(calls)
    /\ calls[i].k = "loadCollections"
    /\ calls[i].st \in {"ok", "err"}
    /\ collections' = IF calls[i].st = "ok" THEN calls[i].res ELSE collections
    /\ collectionsLoading' = FALSE
    /\ calls' = RemoveAt(calls, i)
    /\ ev' = [op |-> "loadCollections", ok |-> (calls[i].st = "ok")]
    /\ UNCHANGED <<tabs, activeTabId, selectedCollectionId, collectionRequests,
                   collectionRequestsLoading, idCounter, dbVars, envVars>>

\* up to the await: the move is sent as asked
MoveCollectionCall(collectionId, newParentId) ==
    /\ calls' = Append(calls, Invoke("move_collection", "moveCollection",
                    [collectionId |-> collectionId,
                     newParentId |-> newParentId]))
    /\ ev' = [op |-> "moveCollectionCall", collectionId |-> collectionId,
              newParentId |-> newParentId]
    /\ UNCHANGED <<storeVars, idCounter, dbVars>>

\* after the await: on success the collections are reloaded; on failure the
\* error is rethrown
MoveCollectionDone(i) ==
    /\ i \in 1..Len(calls)
    /\ calls[i].k = "moveCollection"
    /\ calls[i].st \in {"ok", "err"}
    /\ IF calls[i].st = "ok"
       THEN /\ collectionsLoading' = TRUE
            /\ calls' = LoadCollectionsBegin(RemoveAt(calls, i))
       ELSE /\ calls' = RemoveAt(calls, i)
            /\ UNCHANGED collectionsLoading
    /\ ev' = [op |-> "moveCollection", collectionId |-> calls[i].arg.collectionId,
              newParentId |-> calls[i].arg.newParentId,
              ok |-> (calls[i].st = "ok"), threw |-> (calls[i].st = "err")]
    /\ UNCHANGED <<tabs, activeTabId, selectedCollectionId, collections,
                   collectionRequests, collectionRequestsLoading, idCounter,
                   dbVars, envVars>>

(***************************************************************************)
(* moveRequest and renameRequest                                           *)
(***************************************************************************)
\* the position of the first bucket, in the order of Object.entries, that
\* lists requestId; 0 when no bucket does
FirstBucketWith(cr, requestId) ==
    LET holding == {i \in 1..Len(cr) :
                      \E j \in 1..Len(cr[i].requests) :
                         cr[i].requests[j].id = requestId}
    IN IF holding = {} THEN 0
       ELSE CHOOSE i \in holding : \A j \in holding : i <= j

\* requests.push(movedRequest) on bucket k, made when absent
CachePush(cr, k, request) ==
    CachePut(cr, k, Append(CacheGet(cr, k), request))

\* tabs with the fields of patch set on the request of every tab of requestId
PatchTabRequests(ts, requestId, patch) ==
    [i \in 1..Len(ts) |->
        IF ts[i].request.id = requestId
        THEN [ts[i] EXCEPT !.request = Spread(ts[i].request, patch)]
        ELSE ts[i]]

\* up to the await
MoveRequestCall(requestId, newCollectionId) ==
    /\ calls' = Append(calls, Invoke("move_request", "moveRequest",
                    [requestId |-> requestId,
                     newCollectionId |-> newCollectionId]))
    /\ ev' = [op |-> "moveRequestCall", requestId |-> requestId,
              newCollectionId |-> newCollectionId]
    /\ UNCHANGED <<storeVars, idCounter, dbVars>>

\* after the await: the request leaves the first bucket that lists it and is
\* pushed on the new collection's bucket, and the tabs are patched, all only
\* when a bucket lists it; an error is rethrown
MoveRequestDone(i) ==
    /\ i \in 1..Len(calls)
    /\ calls[i].k = "moveRequest"
    /\ calls[i].st \in {"ok", "err"}
    /\ LET requestId == calls[i].arg.requestId
           newCollectionId == calls[i].arg.newCollectionId
           b == FirstBucketWith(collectionRequests, requestId)
       IN IF calls[i].st = "ok" /\ b # 0
          THEN LET requests == collectionRequests[b].requests
                   found == SelectSeq(requests, LAMBDA r : r.id = requestId)[1]
                   movedRequest ==
                       [found EXCEPT !.collection_id = newCollectionId]
                   removed ==
                       [collectionRequests EXCEPT ![b].requests =
                           SelectSeq(requests, LAMBDA r : r.id # requestId)]
               IN /\ collectionRequests' =
                        CachePush(removed, newCollectionId, movedRequest)
                  /\ tabs' = PatchTabRequests(tabs, requestId,
                                 [collection_id |-> newCollectionId])
          ELSE UNCHANGED <<collectionRequests, tabs>>
    /\ ev' = [op |-> "moveRequest", requestId |-> calls[i].arg.requestId,
              newCollectionId |-> calls[i].arg.newCollectionId,
              ok |-> (calls[i].st = "ok"), threw |-> (calls[i].st = "err")]
    /\ calls' = RemoveAt(calls, i)
    /\ UNCHANGED <<activeTabId, selectedCollectionId, collections,
                   collectionsLoading, collectionRequestsLoading, idCounter,
                   dbVars, envVars>>

\* up to the await
RenameRequestCall(requestId, name) ==
    /\ calls' = Append(calls, Invoke("update_request_name", "renameRequest",
                    [requestId |-> requestId, name |-> name]))
    /\ ev' = [op |-> "renameRequestCall", requestId |-> requestId,
              name |-> name]
    /\ UNCHANGED <<storeVars, idCounter, dbVars>>

\* after the await: the request is renamed in the first bucket that lists
\* it and in the tabs; an error is rethrown
RenameRequestDone(i) ==
    /\ i \in 1..Len(calls)
    /\ calls[i].k = "renameRequest"
    /\ calls[i].st \in {"ok", "err"}
    /\ LET requestId == calls[i].arg.requestId
           name == calls[i].arg.name
           b == FirstBucketWith(collectionRequests, requestId)
       IN IF calls[i].st = "ok"
          THEN /\ collectionRequests' =
                     IF b = 0 THEN collectionRequests
                     ELSE [collectionRequests EXCEPT ![b].requests =
                              [j \in 1..Len(collectionRequests[b].requests) |->
                                  LET request == collectionRequests[b].requests[j]
                                  IN IF request.id = requestId
                                     THEN [request EXCEPT !.name = name]
                                     ELSE request]]
               /\ tabs' = [j \in 1..Len(tabs) |->
                             IF tabs[j].request.id = requestId
                             THEN [tabs[j] EXCEPT !.name = name,
                                                  !.request.name = name]
                             ELSE tabs[j]]
          ELSE UNCHANGED <<collectionRequests, tabs>>
    /\ ev' = [op |-> "renameRequest", requestId |-> calls[i].arg.requestId,
              name |-> calls[i].arg.name, ok |-> (calls[i].st = "ok"),
              threw |-> (calls[i].st = "err")]
    /\ calls' = RemoveAt(calls, i)
    /\ UNCHANGED <<activeTabId, selectedCollectionId, collections,
                   collectionsLoading, collectionRequestsLoading, idCounter,
                   dbVars, envVars>>

(***************************************************************************)
(* Sidebar tree and drag and drop                                          *)
(***************************************************************************)
\* getRootCollections (parentId Null) and getChildCollections
ChildCollections(cs, parentId) ==
    {cs[i].id : i \in {j \in 1..Len(cs) : cs[j].parent_id = parentId}}

\* the collections renderCollectionItem reaches from the root collections
RECURSIVE RenderedBelow(_, _, _)
RenderedBelow(cs, ids, depth) ==
    IF depth = 0 \/ ids = {} THEN ids
    ELSE ids \cup RenderedBelow(cs,
                      UNION {ChildCollections(cs, p) : p \in ids}, depth - 1)

Rendered(cs) == RenderedBelow(cs, ChildCollections(cs, Null), Len(cs))

\* the droppables of the sidebar: id, data.type and data.collectionId
DropTarget(id, type, collectionId) ==
    [id |-> id, type |-> type, collectionId |-> collectionId]

DropTargets ==
    {DropTarget(c, "collection", Null) : c \in Rendered(collections)}
    \cup {DropTarget(c \o "-collections", "collection-area", c) :
            c \in Rendered(collections)}
    \cup {DropTarget(c \o "-requests", "request-area", c) :
            c \in Rendered(collections)}
    \cup {DropTarget(r, "request", Null) :
            r \in UNION {BucketIds(collectionRequests, c) :
                           c \in Rendered(collections)}}
    \cup {DropTarget(Root, "root-area", Root)}

\* ids are UUIDs in the program; the model's ids stand for them
IsValidUUID(str) == str \in CollIds \cup Range(ReqOrder) \cup {Root}

\* createDragEndHandler, collection branch: the parent a drop resolves to
NewParentId(over) ==
    IF over.type = "collection" /\ IsValidUUID(over.id) THEN over.id
    ELSE IF over.collectionId # Null /\ IsValidUUID(over.collectionId)
         THEN over.collectionId
         ELSE Null

\* a rendered collection is dropped on a droppable
HandleDragEndCollection(activeId, over) ==
    /\ activeId \in Rendered(collections)
    /\ over \in DropTargets
    /\ activeId # over.id
    /\ IsValidUUID(activeId)
    /\ MoveCollectionCall(activeId, NewParentId(over))

\* createDragEndHandler, request branch: the collection a drop resolves to
TargetCollectionId(over) ==
    IF over.collectionId # Null
    THEN IF IsValidUUID(over.collectionId) THEN over.collectionId ELSE Root
    ELSE IF over.type = "collection" /\ IsValidUUID(over.id) THEN over.id
    ELSE Root

\* the requests the sidebar shows under the rendered collections
RenderedRequests ==
    UNION {BucketIds(collectionRequests, c) : c \in Rendered(collections)}

\* a shown request is dropped on a droppable
HandleDragEndRequest(activeId, over) ==
    /\ activeId \in RenderedRequests
    /\ over \in DropTargets
    /\ activeId # over.id
    /\ IsValidUUID(activeId)
    /\ IsValidUUID(TargetCollectionId(over))
    /\ MoveRequestCall(activeId, TargetCollectionId(over))

\* Sidebar.handleRenameRequest on a shown request
HandleRenameRequest(requestId, newName) ==
    /\ requestId \in RenderedRequests
    /\ RenameRequestCall(requestId, newName)
    /\ UNCHANGED uiVars

(***************************************************************************)
(* deleteCollection                                                        *)
(***************************************************************************)
\* what getDescendantIds adds when its recursion does not end
StackOverflow == "RangeError"

\* a walk that stops at the collection itself
GetDescendantIdsOnlySelf(cs, parentId, depth) == {parentId}

\* getDescendantIds: parentId and the ids its recursion over the children
\* collects; depth is the depth of recursion left before it can only be
\* running round a cycle of parents, where the call stack overflows
RECURSIVE GetDescendantIds(_, _, _)
GetDescendantIds(cs, parentId, depth) ==
    IF depth = 0 THEN {StackOverflow}
    ELSE {parentId} \cup
         UNION {GetDescendantIds(cs, child, depth - 1) :
                  child \in ChildCollections(cs, parentId)}

\* up to the await
DeleteCollectionCall(id) ==
    /\ calls' = Append(calls, Invoke("delete_collection", "deleteCollection",
                                     [id |-> id]))
    /\ ev' = [op |-> "deleteCollectionCall", id |-> id]
    /\ UNCHANGED <<storeVars, idCounter, dbVars>>

\* after the await: on success the set callback drops the collection, its
\* descendants, their buckets and their tabs; an error is rethrown, also
\* the one the callback raises
DeleteCollectionDone(i) ==
    /\ i \in 1..Len(calls)
    /\ calls[i].k = "deleteCollection"
    /\ calls[i].st \in {"ok", "err"}
    /\ LET id == calls[i].arg.id
           deletedCollectionIds ==
               GetDescendantIds(collections, id, Len(collections) + 1)
           applied == calls[i].st = "ok"
                      /\ StackOverflow \notin deletedCollectionIds
           newTabs == SelectSeq(tabs, LAMBDA tab :
                          \/ tab.request.collection_id = Null
                          \/ tab.request.collection_id \notin deletedCollectionIds)
       IN /\ IF applied
             THEN /\ collections' = SelectSeq(collections,
                                      LAMBDA c : c.id \notin deletedCollectionIds)
                  /\ collectionRequests' =
                        CacheDelete(collectionRequests, deletedCollectionIds)
                  /\ tabs' = newTabs
                  /\ activeTabId' =
                        IF activeTabId # NoTab /\ TabIndex(newTabs, activeTabId) = -1
                        THEN IF Len(newTabs) > 0 THEN newTabs[1].id ELSE NoTab
                        ELSE activeTabId
                  /\ selectedCollectionId' =
                        IF selectedCollectionId \in deletedCollectionIds
                        THEN Null ELSE selectedCollectionId
             ELSE UNCHANGED <<collections, collectionRequests, tabs,
                              activeTabId, selectedCollectionId>>
          /\ ev' = [op |-> "deleteCollection", id |-> id, ok |-> applied,
                    threw |-> ~applied]
    /\ calls' = RemoveAt(calls, i)
    /\ UNCHANGED <<collectionsLoading, collectionRequestsLoading, idCounter,
                   dbVars, envVars>>

(***************************************************************************)
(* Authentication headers                                                  *)
(***************************************************************************)
\* a function's outcome: the value it returns or the error it throws
Returned(val) == [threw |-> "", val |-> val]
Threw(error) == [threw |-> error, val |-> EmptyHeaders]

Base64Alphabet ==
    <<"A", "B", "C", "D", "E", "F", "G", "H",
      "I", "J", "K", "L", "M", "N", "O", "P",
      "Q", "R", "S", "T", "U", "V", "W", "X",
      "Y", "Z", "a", "b", "c", "d", "e", "f",
      "g", "h", "i", "j", "k", "l", "m", "n",
      "o", "p", "q", "r", "s", "t", "u", "v",
      "w", "x", "y", "z", "0", "1", "2", "3",
      "4", "5", "6", "7", "8", "9", "+", "/">>

Base64Char(sextet) == Base64Alphabet[sextet + 1]

\* btoa on a string of characters with codes up to 255, three bytes to four
\* characters, padded with "="
RECURSIVE Btoa(_)
Btoa(codes) ==
    IF Len(codes) = 0 THEN ""
    ELSE IF Len(codes) = 1
    THEN Base64Char(codes[1] \div 4) \o Base64Char((codes[1] % 4) * 16) \o "=="
    ELSE IF Len(codes) = 2
    THEN Base64Char(codes[1] \div 4)
         \o Base64Char((codes[1] % 4) * 16 + codes[2] \div 16)
         \o Base64Char((codes[2] % 16) * 4) \o "="
    ELSE Base64Char(codes[1] \div 4)
         \o Base64Char((codes[1] % 4) * 16 + codes[2] \div 16)
         \o Base64Char((codes[2] % 16) * 4 + codes[3] \div 64)
         \o Base64Char(codes[3] % 64)
         \o Btoa(SubSeq(codes, 4, Len(codes)))

\* the character ":" of `${username}:${password}`
Colon == <<58>>

\* generateAuthHeaders; btoa throws on a character code above 255
GenerateAuthHeaders(auth) ==
    IF auth.type \in {"absent", "none"} THEN Returned(EmptyHeaders)
    ELSE IF auth.type = "basic" /\ auth.username # <<>> /\ auth.password # <<>>
    THEN LET credentials == auth.username \o Colon \o auth.password
         IN IF \E i \in 1..Len(credentials) : credentials[i] > 255
            THEN Threw("InvalidCharacterError")
            ELSE Returned([Authorization |-> "Basic " \o Btoa(credentials)])
    ELSE IF auth.type = "bearer" /\ auth.token # ""
    THEN Returned([Authorization |-> "Bearer " \o auth.token])
    ELSE Returned(EmptyHeaders)

\* collections.find((c) => c.id === collectionId), <<>> when there is none
FindCollection(cs, collectionId) ==
    LET found == SelectSeq(cs, LAMBDA c : c.id = collectionId)
    IN IF found = <<>> THEN <<>> ELSE <<found[1]>>

\* a lookup that does not go to the parent
GetCollectionAuthHeadersOwnOnly(collectionId, cs, depth) ==
    IF collectionId = Null \/ FindCollection(cs, collectionId) = <<>>
    THEN Returned(EmptyHeaders)
    ELSE GenerateAuthHeaders(FindCollection(cs, collectionId)[1].auth)

\* getCollectionAuthHeaders; depth is the depth of recursion left before it
\* can only be running round a cycle of parents, where the call stack
\* overflows
RECURSIVE GetCollectionAuthHeaders(_, _, _)
GetCollectionAuthHeaders(collectionId, cs, depth) ==
    IF collectionId = Null THEN Returned(EmptyHeaders)
    ELSE IF depth = 0 THEN Threw(StackOverflow)
    ELSE LET collection == FindCollection(cs, collectionId)
         IN IF collection = <<>> THEN Returned(EmptyHeaders)
            ELSE LET currentAuthHeaders ==
                         GenerateAuthHeaders(collection[1].auth)
                 IN IF currentAuthHeaders.threw # "" THEN currentAuthHeaders
                    ELSE IF DOMAIN currentAuthHeaders.val # {}
                    THEN currentAuthHeaders
                    ELSE IF collection[1].parent_id # Null
                    THEN GetCollectionAuthHeaders(collection[1].parent_id, cs,
                                                  depth - 1)
                    ELSE Returned(EmptyHeaders)

\* a merge in which the auth headers win
MergeHeadersAuthWins(requestHeaders, authHeaders) ==
    [k \in (DOMAIN authHeaders) \cup (DOMAIN requestHeaders) |->
        IF k \in DOMAIN authHeaders THEN authHeaders[k] ELSE requestHeaders[k]]

\* mergeHeaders: { ...authHeaders, ...requestHeaders }
MergeHeaders(requestHeaders, authHeaders) ==
    [k \in (DOMAIN authHeaders) \cup (DOMAIN requestHeaders) |->
        IF k \in DOMAIN requestHeaders THEN requestHeaders[k] ELSE authHeaders[k]]

(***************************************************************************)
(* sendRequest                                                             *)
(***************************************************************************)
\* tabs with the fields of patch set on the tab tabId
PatchTab(ts, tabId, patch) ==
    [i \in 1..Len(ts) |-> IF ts[i].id = tabId THEN Spread(ts[i], patch) ELSE ts[i]]

\* up to the await: the tab is loading and the request goes out with the
\* merged headers; when computing the auth headers throws, the catch block
\* clears the flag and rethrows
SendRequestCall(tabId) ==
    /\ \E i \in 1..Len(tabs) : tabs[i].id = tabId
    /\ LET tab == tabs[TabIndex(tabs, tabId) + 1]
           authHeaders == GetCollectionAuthHeaders(tab.request.collection_id,
                              collections, Len(collections) + 1)
           finalHeaders == MergeHeaders(tab.request.headers, authHeaders.val)
       IN /\ IF authHeaders.threw = ""
             THEN /\ tabs' = PatchTab(tabs, tabId, [loading |-> TRUE])
                  /\ calls' = Append(calls, Invoke("send_request", "sendRequest",
                       [tabId |-> tabId,
                        payload |-> [method |-> tab.request.method,
                                     url |-> tab.request.url,
                                     headers |-> finalHeaders,
                                     body |-> tab.request.body]]))
             ELSE /\ tabs' = PatchTab(tabs, tabId, [loading |-> FALSE])
                  /\ UNCHANGED calls
          /\ ev' = [op |-> "sendRequestCall", tabId |-> tabId,
                    threw |-> authHeaders.threw, authHeaders |-> authHeaders.val]
    /\ UNCHANGED <<activeTabId, selectedCollectionId, collections,
                   collectionRequests, collectionsLoading,
                   collectionRequestsLoading, idCounter, dbVars,
                   envVars>>

\* after the await: the response is stored on success; the flag is cleared
SendRequestDone(i) ==
    /\ i \in 1..Len(calls)
    /\ calls[i].k = "sendRequest"
    /\ calls[i].st \in {"ok", "err"}
    /\ tabs' = IF calls[i].st = "ok"
               THEN PatchTab(tabs, calls[i].arg.tabId,
                             [response |-> <<calls[i].res>>, loading |-> FALSE])
               ELSE PatchTab(tabs, calls[i].arg.tabId, [loading |-> FALSE])
    /\ calls' = RemoveAt(calls, i)
    /\ ev' = [op |-> "sendRequest", tabId |-> calls[i].arg.tabId,
              ok |-> (calls[i].st = "ok")]
    /\ UNCHANGED <<activeTabId, selectedCollectionId, collections,
                   collectionRequests, collectionsLoading,
                   collectionRequestsLoading, idCounter, dbVars, envVars>>

\* urls that trim to the empty string
BlankUrls == {"", " "}

\* a Send button that is disabled on a blank url only
SendEnabledWhileLoading(tab) == tab.request.url \notin BlankUrls

\* the Send button is enabled: not while the tab is loading, nor on a blank url
SendEnabled(tab) == ~tab.loading /\ tab.request.url \notin BlankUrls

\* RequestPanel.handleSend on the tab shown
HandleSend ==
    /\ ActiveTab # <<>>
    /\ SendEnabled(ActiveTab[1])
    /\ SendRequestCall(ActiveTab[1].id)
    /\ UNCHANGED uiVars

(***************************************************************************)
(* SpecTabs: opening, selecting and closing tabs.  Collection A holds R1   *)
(* and R2; the collection list has been loaded.                            *)
(***************************************************************************)
InitTabs ==
    /\ InitStore
    /\ dbCollections = [c \in {"A"} |-> Coll("A", Null)]
    /\ dbRequests = [r \in {"R1", "R2"} |-> Req(r, "A")]
    /\ collections = DbListCollections(dbCollections)
    /\ collectionRequests = <<>>

NextTabs ==
    \/ NewRequestClick
    \/ \E t \in 1..MaxTabIds : CloseTabClick(t)
    \/ \E t \in 1..MaxTabIds : TabClick(t)
    \/ \E c \in CollIds : Len(calls) < MaxLoads /\ HandleSelectCollection(c)
    \/ \E k \in CollIds, i \in 1..Len(ReqOrder) : HandleLoadRequest(k, i)
    \/ \E i \in 1..Len(ReqOrder) : OverviewRequestClick(i)
    \/ \E i \in 1..Len(calls) : BackendOk(i)
    \/ \E i \in 1..Len(calls) : BackendErr(i)
    \/ \E i \in 1..Len(calls) :
          LoadCollectionRequestsDone(i) /\ UNCHANGED uiVars

SpecTabs == InitTabs /\ [][NextTabs]_vars

(***************************************************************************)
(* C3  Active-tab continuity.  closeTab(t) on the active tab at index i of *)
(* n tabs makes the tab at index min(i, n-2) of the remaining list active, *)
(* or none when no tab remains; closeTab on a non-active tab leaves the    *)
(* active tab id unchanged; the other tabs keep their order and contents.  *)
(***************************************************************************)
C3_ActiveTabContinuity ==
    [][ev'.op = "closeTab" =>
        LET i == ev'.index
            n == Len(tabs)
        IN /\ i \in 0..(n - 1)
           /\ Len(tabs') = n - 1
           /\ \A j \in 1..(n - 1) :
                 tabs'[j] = IF j <= i THEN tabs[j] ELSE tabs[j + 1]
           /\ IF ev'.wasActive
              THEN IF n = 1 THEN activeTabId' = NoTab
                   ELSE activeTabId' = tabs'[Min(i, n - 2) + 1].id
              ELSE activeTabId' = activeTabId]_vars

\* the active tab was the last of three: the new last tab is active
C3_Witness ==
    /\ ev.op = "closeTab"
    /\ ev.wasActive
    /\ ev.index = 2
    /\ Len(tabs) = 2
    /\ activeTabId = tabs[2].id

(***************************************************************************)
(* C4  No duplicate tabs for one saved request: at most one open tab has   *)
(* a given defined request.id.                                             *)
(***************************************************************************)
C4_NoDuplicateTabs ==
    \A i, j \in 1..Len(tabs) :
        (i # j /\ tabs[i].request.id # Null)
            => tabs[i].request.id # tabs[j].request.id

(***************************************************************************)
(* SpecDirty: editing and saving drafts.  Collection A holds R1 and its    *)
(* requests have been fetched.                                             *)
(***************************************************************************)
InitDirty ==
    /\ InitIdle
    /\ dbCollections = [c \in {"A"} |-> Coll("A", Null)]
    /\ dbRequests = [r \in {"R1"} |-> Req(r, "A")]
    /\ collections = DbListCollections(dbCollections)
    /\ collectionRequests =
          <<[key |-> "A", requests |-> DbListRequests(dbRequests, "A")]>>
    /\ tabs = <<NewTab(1, <<dbRequests["R1"]>>, Null), NewTab(2, <<>>, Null)>>
    /\ activeTabId = 2
    /\ idCounter = 2

DraftEdits == {[url |-> "https://x"]}

NextDirty ==
    \/ \E t \in 1..MaxTabIds : CloseTabClick(t)
    \/ \E t \in 1..MaxTabIds : TabClick(t)
    \/ \E u \in DraftEdits : EditRequest(u)
    \/ \E c \in {Null, "A"} :
          /\ Len(calls) < MaxLoads
          /\ ActiveTab # <<>> /\ c = ActiveTab[1].request.collection_id
          /\ HandleSave("saved", c)
    \/ \E i \in 1..Len(calls) : BackendOk(i)
    \/ \E i \in 1..Len(calls) : BackendErr(i)
    \/ \E i \in 1..Len(calls) :
          SaveRequestDone(i) /\ UNCHANGED uiVars
    \/ \E i \in 1..Len(calls) :
          LoadCollectionRequestsDone(i) /\ UNCHANGED uiVars

SpecDirty == InitDirty /\ [][NextDirty]_vars

(***************************************************************************)
(* C8  Dirty tracking.  Every updateTabRequest(t, patch) on an existing    *)
(* tab leaves t with saved = false, also when the patch changes no value;  *)
(* a successful saveRequest(t, ...) sets saved = true on tab t and changes *)
(* the saved flag of no other tab.                                         *)
(***************************************************************************)
C8_DirtyTracking ==
    [][/\ ev'.op = "updateTabRequest" =>
            \A i \in 1..Len(tabs') :
                tabs'[i].id = ev'.tabId => tabs'[i].saved = FALSE
       /\ (ev'.op = "saveRequest" /\ ev'.ok) =>
            /\ Len(tabs') = Len(tabs)
            /\ \A i \in 1..Len(tabs) :
                  /\ tabs'[i].id = tabs[i].id
                  /\ tabs'[i].saved =
                        IF tabs[i].id = ev'.tabId THEN TRUE ELSE tabs[i].saved]_vars

\* a save has just succeeded on one tab while an edited tab of a persisted
\* request stays unsaved
C8_Witness ==
    /\ ev.op = "saveRequest"
    /\ ev.ok
    /\ \E i, j \in 1..Len(tabs) :
          /\ tabs[i].id = ev.tabId
          /\ tabs[i].saved
          /\ tabs[j].id # ev.tabId
          /\ tabs[j].request.id # Null
          /\ ~tabs[j].saved

(***************************************************************************)
(* SpecTree: moving collections.  The forest is A with child B, and C.     *)
(***************************************************************************)
InitTree ==
    /\ InitStore
    /\ dbCollections = [c \in CollIds |->
                           Coll(c, IF c = "B" THEN "A" ELSE Null)]
    /\ dbRequests = <<>>
    /\ collections = DbListCollections(dbCollections)
    /\ collectionRequests = <<>>

NextTree ==
    \/ \E c \in CollIds, over \in DropTargets :
          /\ Len(calls) < MaxLoads
          /\ HandleDragEndCollection(c, over)
          /\ UNCHANGED uiVars
    \/ \E c \in CollIds, p \in CollIds \cup {Null} :
          /\ Len(calls) < MaxLoads
          /\ MoveCollectionCall(c, p)
          /\ UNCHANGED uiVars
    \/ \E i \in 1..Len(calls) : BackendOk(i)
    \/ \E i \in 1..Len(calls) : BackendErr(i)
    \/ \E i \in 1..Len(calls) :
          MoveCollectionDone(i) /\ UNCHANGED uiVars
    \/ \E i \in 1..Len(calls) :
          LoadCollectionsDone(i) /\ UNCHANGED uiVars

SpecTree == InitTree /\ [][NextTree]_vars

(***************************************************************************)
(* C1  Tree acyclicity.  Starting from an acyclic forest, after any        *)
(* sequence of collection moves, each followed by the reload, no           *)
(* collection of the store's list is its own ancestor via parent_id: no    *)
(* non-empty set of listed collections holds the parent of each of its     *)
(* members.                                                                *)
(***************************************************************************)
C1_TreeAcyclicity ==
    ~ \E S \in SUBSET CollIds :
         /\ S # {}
         /\ \A x \in S : \E i \in 1..Len(collections) :
               /\ collections[i].id = x
               /\ collections[i].parent_id \in S

(***************************************************************************)
(* SpecDelete: deleting collections.  The collections A, B and C have any  *)
(* parents; A holds R1, B holds R2, every bucket is cached, and the tabs   *)
(* of R1, R2 and a new request are open.                                   *)
(***************************************************************************)
InitDelete ==
    /\ InitIdle
    /\ \E parent \in [CollIds -> CollIds \cup {Null}] :
          dbCollections = [c \in CollIds |-> Coll(c, parent[c])]
    /\ dbRequests = [r \in ReqIds |-> Req(r, IF r = "R1" THEN "A" ELSE "B")]
    /\ collections = DbListCollections(dbCollections)
    /\ collectionRequests =
          [i \in 1..Len(CollOrder) |->
              [key |-> CollOrder[i],
               requests |-> DbListRequests(dbRequests, CollOrder[i])]]
    /\ tabs = <<NewTab(1, <<dbRequests["R1"]>>, Null),
                NewTab(2, <<dbRequests["R2"]>>, Null),
                NewTab(3, <<>>, Null)>>
    /\ activeTabId \in {1, 2, 3}
    /\ idCounter = 3

NextDelete ==
    \/ \E c \in CollIds :
          /\ Len(calls) < MaxLoads
          /\ DeleteCollectionCall(c)
          /\ UNCHANGED uiVars
    \/ \E i \in 1..Len(calls) : BackendOk(i)
    \/ \E i \in 1..Len(calls) : BackendErr(i)
    \/ \E i \in 1..Len(calls) :
          DeleteCollectionDone(i) /\ UNCHANGED uiVars

SpecDelete == InitDelete /\ [][NextDelete]_vars

(***************************************************************************)
(* C2  Cascade completeness.  When deleteCollection(C) succeeds, with D    *)
(* the set of C and all its transitive children in the local collection    *)
(* list at the moment the response is applied: no collection with id in D  *)
(* remains, no cache key in D remains, no open tab has request             *)
(* collection_id in D, and the collections, cache entries and tabs outside *)
(* D are left as they were.                                                *)
(***************************************************************************)
C2_CascadeCompleteness ==
    [][(ev'.op = "deleteCollection" /\ ev'.ok) =>
          LET Closed(S) == \A i \in 1..Len(collections) :
                              collections[i].parent_id \in S =>
                                 collections[i].id \in S
              D == {x \in CollIds :
                      \A S \in SUBSET CollIds :
                         (ev'.id \in S /\ Closed(S)) => x \in S}
          IN /\ collections' = SelectSeq(collections, LAMBDA c : c.id \notin D)
             /\ collectionRequests' =
                   SelectSeq(collectionRequests, LAMBDA e : e.key \notin D)
             /\ tabs' = SelectSeq(tabs, LAMBDA t :
                                    t.request.collection_id \notin D)]_vars

\* A has been deleted with its child B: only C, its bucket and the tab of
\* the new request are left
C2_Witness ==
    /\ ev.op = "deleteCollection"
    /\ ev.ok
    /\ ev.id = "A"
    /\ Len(collections) = 1
    /\ collections[1].id = "C"
    /\ CacheKeys(collectionRequests) = {"C"}
    /\ Len(tabs) = 1
    /\ tabs[1].request.collection_id = Null

(***************************************************************************)
(* SpecAuth: sending a request.  A, B and C are in a chain (C below B      *)
(* below A) or on a cycle of parents, each with any of the auth values; A  *)
(* or C may be missing from the list; the one tab holds a request of any   *)
(* collection or of none, with any of the header sets.                     *)
(***************************************************************************)
Auth(type, username, password, token) ==
    [type |-> type, username |-> username, password |-> password,
     token |-> token]

\* "ab" and "p" give Basic YWI6cA==; the character 960 is outside Latin-1
AuthValues ==
    {NoAuth,
     Auth("none", <<>>, <<>>, ""),
     Auth("basic", <<97, 98>>, <<112>>, ""),
     Auth("basic", <<97, 98>>, <<>>, ""),
     Auth("basic", <<960>>, <<112>>, ""),
     Auth("bearer", <<>>, <<>>, "T"),
     Auth("bearer", <<>>, <<>>, "")}

ParentMaps ==
    {[c \in CollIds |-> IF c = "A" THEN Null ELSE IF c = "B" THEN "A" ELSE "B"],
     [c \in CollIds |-> IF c = "A" THEN "B" ELSE "A"]}

HeaderValues ==
    {EmptyHeaders, [Authorization |-> "X"], [authorization |-> "x"]}

InitAuth ==
    /\ InitIdle
    /\ \E parent \in ParentMaps, auth \in [CollIds -> AuthValues],
          listed \in {CollIds, CollIds \ {"C"}, CollIds \ {"A"}} :
          dbCollections = [c \in listed |->
                              [Coll(c, parent[c]) EXCEPT !.auth = auth[c]]]
    /\ \E c \in CollIds \cup {Null}, headers \in HeaderValues :
          /\ dbRequests = [r \in {"R1"} |->
                              [Req(r, c) EXCEPT !.headers = headers]]
          /\ tabs = <<NewTab(1, <<dbRequests["R1"]>>, Null)>>
    /\ collections = DbListCollections(dbCollections)
    /\ collectionRequests = <<>>
    /\ activeTabId = 1
    /\ idCounter = 1

NextAuth ==
    \/ Len(calls) < MaxLoads /\ HandleSend
    \/ \E i \in 1..Len(calls) : BackendOk(i)
    \/ \E i \in 1..Len(calls) : BackendErr(i)
    \/ \E i \in 1..Len(calls) :
          SendRequestDone(i) /\ UNCHANGED uiVars

SpecAuth == InitAuth /\ [][NextAuth]_vars

(***************************************************************************)
(* C5  Auth inheritance.  For an acyclic collection list, the auth headers *)
(* computed for a request with collection_id c are exactly the headers     *)
(* derived from the nearest collection on the path c, parent(c), ... whose *)
(* auth is usable (basic with non-empty username and password, or bearer   *)
(* with non-empty token); collections with no auth, type none or an empty  *)
(* field are skipped; the result is empty when c is absent, c is not in    *)
(* the list, or no collection on the path has usable auth.                 *)
(***************************************************************************)
C5_AuthInheritance ==
    [][ev'.op = "sendRequestCall" =>
          LET c == tabs[TabIndex(tabs, ev'.tabId) + 1].request.collection_id
              Listed(x) == \E i \in 1..Len(collections) : collections[i].id = x
              Of(x) == collections[CHOOSE i \in 1..Len(collections) :
                                      collections[i].id = x]
              Usable(a) ==
                  \/ a.type = "basic" /\ a.username # <<>> /\ a.password # <<>>
                  \/ a.type = "bearer" /\ a.token # ""
              Acyclic ==
                  ~ \E S \in SUBSET CollIds :
                       /\ S # {}
                       /\ \A x \in S : Listed(x) /\ Of(x).parent_id \in S
              Paths ==
                  {p \in UNION {[1..n -> CollIds] : n \in 1..Len(collections)} :
                     /\ p[1] = c
                     /\ \A k \in 1..Len(p) : Listed(p[k])
                     /\ \A k \in 1..(Len(p) - 1) :
                           /\ ~Usable(Of(p[k]).auth)
                           /\ p[k + 1] = Of(p[k]).parent_id
                     /\ Usable(Of(p[Len(p)]).auth)}
          IN Acyclic =>
                IF Paths = {}
                THEN ev'.threw = "" /\ ev'.authHeaders = EmptyHeaders
                ELSE \A p \in Paths :
                        [threw |-> ev'.threw, val |-> ev'.authHeaders] =
                           GenerateAuthHeaders(Of(p[Len(p)]).auth)]_vars

\* a request of C has been sent: C has type none, B a basic auth with an
\* empty password, and the headers come from A's basic auth
C5_Witness ==
    /\ ev.op = "sendRequestCall"
    /\ Len(collections) = 3
    /\ collections[1].parent_id = Null
    /\ collections[1].auth = Auth("basic", <<97, 98>>, <<112>>, "")
    /\ collections[2].auth = Auth("basic", <<97, 98>>, <<>>, "")
    /\ collections[3].auth.type = "none"
    /\ tabs[1].request.collection_id = "C"
    /\ ev.authHeaders = [Authorization |-> "Basic YWI6cA=="]

(***************************************************************************)
(* C6  Auth override.  The headers sendRequest passes to the backend are   *)
(* the union of the inherited auth headers and the tab's request headers,  *)
(* every key defined by the request keeping the request's value; with      *)
(* collection A (bearer token T) and its child B (no auth), a request in B *)
(* with header Authorization: X is sent with Authorization: X, and without *)
(* a request-level Authorization header with Authorization: Bearer T.      *)
(***************************************************************************)
C6_AuthOverride ==
    [][(ev'.op = "sendRequestCall" /\ ev'.threw = "") =>
          LET request == tabs[TabIndex(tabs, ev'.tabId) + 1].request
              sent == calls'[Len(calls')].arg.payload.headers
              inherited == ev'.authHeaders
              A == FindCollection(collections, "A")
              B == FindCollection(collections, "B")
          IN /\ DOMAIN sent = (DOMAIN inherited) \cup (DOMAIN request.headers)
             /\ \A k \in DOMAIN request.headers : sent[k] = request.headers[k]
             /\ \A k \in (DOMAIN inherited) \ (DOMAIN request.headers) :
                   sent[k] = inherited[k]
             /\ ( /\ A # <<>> /\ B # <<>>
                  /\ A[1].auth = Auth("bearer", <<>>, <<>>, "T")
                  /\ B[1].parent_id = "A"
                  /\ B[1].auth.type \in {"absent", "none"}
                  /\ request.collection_id = "B" )
                => sent.Authorization =
                      IF "Authorization" \in DOMAIN request.headers
                      THEN request.headers.Authorization
                      ELSE "Bearer T"]_vars

\* A has bearer token T, its child B no auth, and a request of B with its
\* own Authorization: X has gone out with Authorization: X
C6_Witness ==
    /\ ev.op = "sendRequestCall"
    /\ ev.threw = ""
    /\ ev.authHeaders = [Authorization |-> "Bearer T"]
    /\ collections[1].auth = Auth("bearer", <<>>, <<>>, "T")
    /\ collections[2].parent_id = "A"
    /\ collections[2].auth = NoAuth
    /\ tabs[1].request.collection_id = "B"
    /\ tabs[1].request.headers = [Authorization |-> "X"]
    /\ calls # <<>>
    /\ calls[Len(calls)].arg.payload.headers = [Authorization |-> "X"]

(***************************************************************************)
(* SpecReq: moving and renaming requests.  A and B are top-level           *)
(* collections, A holds R1, and both buckets have been fetched.            *)
(***************************************************************************)
InitReq ==
    /\ InitStore
    /\ dbCollections = [c \in {"A", "B"} |-> Coll(c, Null)]
    /\ dbRequests = [r \in {"R1"} |-> Req(r, "A")]
    /\ collections = DbListCollections(dbCollections)
    /\ collectionRequests =
          <<[key |-> "A", requests |-> DbListRequests(dbRequests, "A")],
            [key |-> "B", requests |-> DbListRequests(dbRequests, "B")]>>

NewNames == {"renamed"}

\* the number of entries in all buckets
RECURSIVE CachedEntries(_)
CachedEntries(cr) ==
    IF cr = <<>> THEN 0 ELSE Len(Head(cr).requests) + CachedEntries(Tail(cr))

NextReq ==
    \/ \E k \in CollIds, i \in 1..Len(ReqOrder) : HandleLoadRequest(k, i)
    \/ \E c \in CollIds : Len(calls) < MaxCalls /\ HandleSelectCollection(c)
    \/ \E r \in ReqIds, over \in {t \in DropTargets : t.type = "collection"} :
          /\ Len(calls) < MaxCalls
          /\ CachedEntries(collectionRequests) <= MaxListed
          /\ HandleDragEndRequest(r, over)
          /\ UNCHANGED uiVars
    \/ \E r \in ReqIds, n \in NewNames :
          Len(calls) < MaxCalls /\ HandleRenameRequest(r, n)
    \/ \E i \in 1..Len(calls) : BackendOk(i)
    \/ \E i \in 1..Len(calls) : BackendErr(i)
    \/ \E i \in 1..Len(calls) :
          MoveRequestDone(i) /\ UNCHANGED uiVars
    \/ \E i \in 1..Len(calls) :
          RenameRequestDone(i) /\ UNCHANGED uiVars
    \/ \E i \in 1..Len(calls) :
          LoadCollectionRequestsDone(i) /\ UNCHANGED uiVars

SpecReq == InitReq /\ [][NextReq]_vars

(***************************************************************************)
(* C7  Move of cache state.  A successful moveRequest(R, Y) for a request  *)
(* R cached under collection X removes exactly one entry, R's, from X's    *)
(* cached list and adds exactly one entry for R, with collection_id = Y,   *)
(* to Y's cached list, leaving every other bucket unchanged.               *)
(***************************************************************************)
C7_MoveOfCacheState ==
    [][(ev'.op = "moveRequest" /\ ev'.ok) =>
          LET R == ev'.requestId
              Y == ev'.newCollectionId
              before(k) == CacheGet(collectionRequests, k)
              after(k) == CacheGet(collectionRequests', k)
          IN \A X \in CacheKeys(collectionRequests) :
                (R \in BucketIds(collectionRequests, X) /\ X # Y) =>
                   /\ Len(after(X)) = Len(before(X)) - 1
                   /\ after(X) = SelectSeq(before(X), LAMBDA r : r.id # R)
                   /\ Len(after(Y)) = Len(before(Y)) + 1
                   /\ SubSeq(after(Y), 1, Len(before(Y))) = before(Y)
                   /\ after(Y)[Len(after(Y))].id = R
                   /\ after(Y)[Len(after(Y))].collection_id = Y
                   /\ \A Z \in CacheKeys(collectionRequests) \ {X, Y} :
                         after(Z) = before(Z)]_vars

(***************************************************************************)
(* C9  Rename fan-out.  After a successful renameRequest(R, name), every   *)
(* entry with id R in every bucket of collectionRequests has the new name, *)
(* and every open tab whose request.id is R has tab.name and               *)
(* tab.request.name equal to the new name, in that one transition.         *)
(***************************************************************************)
C9_RenameFanOut ==
    [][(ev'.op = "renameRequest" /\ ev'.ok) =>
          /\ \A i \in 1..Len(collectionRequests') :
                \A j \in 1..Len(collectionRequests'[i].requests) :
                   collectionRequests'[i].requests[j].id = ev'.requestId =>
                      collectionRequests'[i].requests[j].name = ev'.name
          /\ \A i \in 1..Len(tabs') :
                tabs'[i].request.id = ev'.requestId =>
                   /\ tabs'[i].name = ev'.name
                   /\ tabs'[i].request.name = ev'.name]_vars

(***************************************************************************)
(* C10  Request-move tab patch.  After a successful moveRequest(R, Y),     *)
(* every open tab whose request.id is R has request.collection_id = Y,     *)
(* whether or not a cached list held R when the backend call returned.     *)
(***************************************************************************)
C10_RequestMoveTabPatch ==
    [][(ev'.op = "moveRequest" /\ ev'.ok) =>
          \A i \in 1..Len(tabs') :
             tabs'[i].request.id = ev'.requestId =>
                tabs'[i].request.collection_id = ev'.newCollectionId]_vars


(***************************************************************************)
(* Drag and drop in the Sidebar: handleDragStart, handleDragOver and       *)
(* handleDragEnd, which is createDragEndHandler over the two callbacks     *)
(* that call moveCollection and moveRequest.                               *)
(***************************************************************************)
\* the draggables of the sidebar: id and data.type
DragItem(id, type) == [id |-> id, type |-> type]

DragItems ==
    {DragItem(c, "collection") : c \in Rendered(collections)}
    \cup {DragItem(r, "request") : r \in RenderedRequests}

\* Sidebar.handleDragStart
HandleDragStart(item) ==
    /\ dnd = <<>>
    /\ item \in DragItems
    /\ dnd' = <<[active |-> item, over |-> <<>>]>>
    /\ activeDragId' = item.id
    /\ ev' = [op |-> "dragStart", id |-> item.id]
    /\ UNCHANGED <<storeVars, idCounter, dbVars, calls, dragOverTarget, toast>>

\* Sidebar.handleDragOver: the pointer enters a droppable, or leaves them all
HandleDragOver(over) ==
    /\ dnd # <<>>
    /\ over # dnd[1].over
    /\ over # <<>> => over[1] \in DropTargets
    /\ dnd' = <<[dnd[1] EXCEPT !.over = over]>>
    /\ dragOverTarget' = IF over # <<>> THEN over[1].id ELSE Null
    /\ ev' = [op |-> "dragOver"]
    /\ UNCHANGED <<storeVars, idCounter, dbVars, calls, activeDragId, toast>>

\* whether createDragEndHandler returns before it reaches a callback
DragEndReturns(active, over) ==
    \/ over = <<>>
    \/ active.id = over[1].id
    \/ ~IsValidUUID(active.id)
    \/ active.type \notin {"collection", "request"}
    \/ active.type = "request" /\ ~IsValidUUID(TargetCollectionId(over[1]))

\* Sidebar.handleDragEnd up to its await: the drop ends the drag; either the
\* handler returns, or a callback calls the store and waits
HandleDragEnd ==
    /\ dnd # <<>>
    /\ dnd' = <<>>
    /\ LET active == dnd[1].active
           over == dnd[1].over
       IN IF DragEndReturns(active, over)
          THEN /\ ev' = [op |-> "dragEnd", id |-> active.id]
               /\ UNCHANGED <<storeVars, idCounter, dbVars, calls>>
          ELSE IF active.type = "collection"
               THEN MoveCollectionCall(active.id, NewParentId(over[1]))
               ELSE MoveRequestCall(active.id, TargetCollectionId(over[1]))
    /\ UNCHANGED <<activeDragId, dragOverTarget, toast>>

\* the finally of both callbacks
DragStateReset ==
    /\ activeDragId' = Null
    /\ dragOverTarget' = Null

\* the collection callback when moveCollection's invocation has settled: on
\* failure the error toast and the reset, on success moveCollection goes on
\* to reload the collections
CollectionMoveInvoked(i) ==
    /\ MoveCollectionDone(i)
    /\ IF calls[i].st = "err"
       THEN toast' = "error" /\ DragStateReset /\ UNCHANGED dnd
       ELSE UNCHANGED uiVars

\* the collection callback when the reload has settled: loadCollections
\* never rejects, so the success toast and the reset
CollectionMoveSettled(i) ==
    /\ LoadCollectionsDone(i)
    /\ toast' = "success"
    /\ DragStateReset
    /\ UNCHANGED dnd

\* the request callback when moveRequest has settled
RequestMoveSettled(i) ==
    /\ MoveRequestDone(i)
    /\ toast' = IF calls[i].st = "ok" THEN "success" ELSE "error"
    /\ DragStateReset
    /\ UNCHANGED dnd

\* RequestPanel.handleSend when sendRequest has settled: a rejection is
\* logged to the console
HandleSendSettled(i) ==
    /\ SendRequestDone(i)
    /\ UNCHANGED uiVars

(***************************************************************************)
(* Specification SpecSidebar: A at the top level with B below it, R1 in A, *)
(* both buckets fetched, one draft tab; items are dragged and dropped and  *)
(* the draft is sent.                                                      *)
(***************************************************************************)
InitSidebarTree ==
    /\ InitIdle
    /\ dbCollections = [c \in {"A", "B"} |->
                           Coll(c, IF c = "B" THEN "A" ELSE Null)]
    /\ dbRequests = [r \in {"R1"} |-> Req(r, "A")]
    /\ collections = DbListCollections(dbCollections)
    /\ collectionRequests =
          <<[key |-> "A", requests |-> DbListRequests(dbRequests, "A")],
            [key |-> "B", requests |-> DbListRequests(dbRequests, "B")]>>
    /\ tabs = <<NewTab(1, <<>>, Null)>>
    /\ activeTabId = 1
    /\ idCounter = 1

NextSidebar ==
    \/ \E item \in DragItems : Len(calls) < MaxLoads /\ HandleDragStart(item)
    \/ \E t \in DropTargets : HandleDragOver(<<t>>)
    \/ HandleDragOver(<<>>)
    \/ HandleDragEnd
    \/ Len(calls) < MaxLoads /\ dnd = <<>> /\ HandleSend
    \/ \E i \in 1..Len(calls) : BackendOk(i)
    \/ \E i \in 1..Len(calls) : BackendErr(i)
    \/ \E i \in 1..Len(calls) : CollectionMoveInvoked(i)
    \/ \E i \in 1..Len(calls) : CollectionMoveSettled(i)
    \/ \E i \in 1..Len(calls) : RequestMoveSettled(i)
    \/ \E i \in 1..Len(calls) : HandleSendSettled(i)

SpecSidebar == InitSidebarTree /\ [][NextSidebar]_vars

(***************************************************************************)
(* C11 (as claimed): when a collection is dropped on a target from which   *)
(* neither a valid over id of type collection nor a valid collectionId can *)
(* be resolved, the drag-end handler issues no move: no invocation is      *)
(* added, and the store is left as it was.                                 *)
(***************************************************************************)
C11_MalformedTargetRejected ==
    [][(/\ dnd # <<>>
        /\ dnd' = <<>>
        /\ dnd[1].active.type = "collection"
        /\ dnd[1].over # <<>>
        /\ NewParentId(dnd[1].over[1]) = Null)
       => (calls' = calls /\ UNCHANGED storeVars)]_vars

\* the step in which the handler of a drag-end event finishes: it returned
\* before any callback, or the callback's move was rejected, or its move
\* (for a collection: the reload that moveCollection ends with) settled
DragEndFinishes ==
    \/ ev'.op = "dragEnd"
    \/ ev'.op = "moveCollection" /\ ~ev'.ok
    \/ ev'.op = "loadCollections"
    \/ ev'.op = "moveRequest"

(***************************************************************************)
(* C12 (as claimed): once the handler of a drag-end event has finished,    *)
(* activeDragId and dragOverTarget are both null, whether the move         *)
(* succeeded, failed in the backend, or the drop was on no target, on the  *)
(* dragged item itself, or rejected for an invalid id or unknown type.     *)
(***************************************************************************)
C12_DragStateReset ==
    [][DragEndFinishes =>
          (activeDragId' = Null /\ dragOverTarget' = Null)]_vars

(***************************************************************************)
(* The loads: loadCollections and loadCollectionRequests called on their   *)
(* own, loadEnvironments and loadHistory.                                  *)
(***************************************************************************)
\* loadCollections up to the await
LoadCollectionsCall ==
    /\ collectionsLoading' = TRUE
    /\ calls' = LoadCollectionsBegin(calls)
    /\ ev' = [op |-> "loadCollectionsCall"]
    /\ UNCHANGED <<tabs, activeTabId, selectedCollectionId, collections,
                   collectionRequests, collectionRequestsLoading, envVars,
                   idCounter, dbVars>>

\* loadCollectionRequests up to the await
LoadCollectionRequestsCall(collectionId) ==
    /\ LET b == LoadCollectionRequestsBegin(collectionId,
                    collectionRequestsLoading, calls)
       IN /\ collectionRequestsLoading' = b.loading
          /\ calls' = b.calls
    /\ ev' = [op |-> "loadCollectionRequestsCall",
              collectionId |-> collectionId]
    /\ UNCHANGED <<tabs, activeTabId, selectedCollectionId, collections,
                   collectionRequests, collectionsLoading, envVars,
                   idCounter, dbVars>>

\* loadEnvironments up to its first await
LoadEnvironmentsCall ==
    /\ environmentsLoading' = TRUE
    /\ calls' = Append(calls,
                    Invoke("get_environments", "loadEnvironments", <<>>))
    /\ ev' = [op |-> "loadEnvironmentsCall"]
    /\ UNCHANGED <<tabs, activeTabId, selectedCollectionId, collections,
                   collectionRequests, collectionsLoading,
                   collectionRequestsLoading, environments, activeEnvironment,
                   history, historyLoading, idCounter, dbVars>>

\* loadEnvironments after either await: the list is followed by the
\* invocation for the active environment, that one by the set; a rejection
\* of either clears the flag and is swallowed
LoadEnvironmentsDone(i) ==
    /\ i \in 1..Len(calls)
    /\ calls[i].k = "loadEnvironments"
    /\ calls[i].st \in {"ok", "err"}
    /\ IF calls[i].st = "err"
       THEN /\ environmentsLoading' = FALSE
            /\ calls' = RemoveAt(calls, i)
            /\ UNCHANGED <<environments, activeEnvironment>>
       ELSE IF calls[i].cmd = "get_environments"
       THEN /\ calls' = Append(RemoveAt(calls, i),
                           Invoke("get_active_environment", "loadEnvironments",
                                  [environments |-> calls[i].res]))
            /\ UNCHANGED <<environments, activeEnvironment,
                           environmentsLoading>>
       ELSE /\ environments' = calls[i].arg.environments
            /\ activeEnvironment' = calls[i].res
            /\ environmentsLoading' = FALSE
            /\ calls' = RemoveAt(calls, i)
    /\ ev' = [op |-> "loadEnvironments", cmd |-> calls[i].cmd,
              ok |-> (calls[i].st = "ok")]
    /\ UNCHANGED <<tabs, activeTabId, selectedCollectionId, collections,
                   collectionRequests, collectionsLoading,
                   collectionRequestsLoading, history, historyLoading,
                   idCounter, dbVars>>

\* loadHistory up to the await
LoadHistoryCall(limit) ==
    /\ historyLoading' = TRUE
    /\ calls' = Append(calls, Invoke("get_request_history", "loadHistory",
                                     [limit |-> limit]))
    /\ ev' = [op |-> "loadHistoryCall"]
    /\ UNCHANGED <<tabs, activeTabId, selectedCollectionId, collections,
                   collectionRequests, collectionsLoading,
                   collectionRequestsLoading, environments, activeEnvironment,
                   history, environmentsLoading, idCounter, dbVars>>

\* a loadHistory that clears its flag only when the invocation resolves
HistoryLoadedNoCatch(st, res, old) ==
    [history |-> IF st = "ok" THEN res ELSE old,
     historyLoading |-> st # "ok"]

\* what loadHistory sets once its invocation has settled
HistoryLoaded(st, res, old) ==
    [history |-> IF st = "ok" THEN res ELSE old, historyLoading |-> FALSE]

\* loadHistory after the await
LoadHistoryDone(i) ==
    /\ i \in 1..Len(calls)
    /\ calls[i].k = "loadHistory"
    /\ calls[i].st \in {"ok", "err"}
    /\ LET loaded == HistoryLoaded(calls[i].st, calls[i].res, history)
       IN /\ history' = loaded.history
          /\ historyLoading' = loaded.historyLoading
    /\ calls' = RemoveAt(calls, i)
    /\ ev' = [op |-> "loadHistory", ok |-> (calls[i].st = "ok")]
    /\ UNCHANGED <<tabs, activeTabId, selectedCollectionId, collections,
                   collectionRequests, collectionsLoading,
                   collectionRequestsLoading, environments, activeEnvironment,
                   environmentsLoading, idCounter, dbVars>>

(***************************************************************************)
(* Specification SpecLoad: the store with one draft tab, before anything   *)
(* is loaded, over a backend that holds collection A with R1, environment  *)
(* E1 (active) and one history entry; the five loading actions are called  *)
(* in any order and interleaving.  SpecLoadFair adds that every invocation *)
(* is eventually answered by the backend, and that the continuation        *)
(* awaiting an answered invocation eventually runs.                        *)
(***************************************************************************)
HistoryEntry(id) == [id |-> id]

\* initializeStore asks for 50 entries
HistoryLimit == 50

InitLoad ==
    /\ tabs = <<NewTab(1, <<>>, Null)>>
    /\ activeTabId = 1
    /\ idCounter = 1
    /\ selectedCollectionId = Null
    /\ collections = <<>>
    /\ collectionRequests = <<>>
    /\ collectionsLoading = FALSE
    /\ collectionRequestsLoading = NoLoading
    /\ environments = <<>>
    /\ activeEnvironment = <<>>
    /\ history = <<>>
    /\ environmentsLoading = FALSE
    /\ historyLoading = FALSE
    /\ dbCollections = [c \in {"A"} |-> Coll("A", Null)]
    /\ dbRequests = [r \in {"R1"} |-> Req(r, "A")]
    /\ dbIds = 0
    /\ dbEnvironments = [e \in {"E1"} |-> Env("E1", "dev", TRUE)]
    /\ dbHistory = <<HistoryEntry("H1")>>
    /\ InitSidebar
    /\ calls = <<>>
    /\ ev = [op |-> "init"]

\* the backend answers invocation i
Respond(i) == BackendOk(i) \/ BackendErr(i)

\* the continuation awaiting invocation i runs
Settle(i) ==
    /\ \/ LoadCollectionsDone(i)
       \/ LoadCollectionRequestsDone(i)
       \/ LoadEnvironmentsDone(i)
       \/ LoadHistoryDone(i)
       \/ SendRequestDone(i)
    /\ UNCHANGED uiVars

NextLoad ==
    \/ Len(calls) < MaxLoads /\ LoadCollectionsCall /\ UNCHANGED uiVars
    \/ Len(calls) < MaxLoads /\ LoadCollectionRequestsCall("A")
                             /\ UNCHANGED uiVars
    \/ Len(calls) < MaxLoads /\ LoadEnvironmentsCall /\ UNCHANGED uiVars
    \/ Len(calls) < MaxLoads /\ LoadHistoryCall(HistoryLimit)
                             /\ UNCHANGED uiVars
    \/ Len(calls) < MaxLoads /\ HandleSend
    \/ \E i \in 1..Len(calls) : Respond(i)
    \/ \E i \in 1..Len(calls) : Settle(i)

SpecLoad == InitLoad /\ [][NextLoad]_vars

SpecLoadFair ==
    /\ SpecLoad
    /\ \A i \in 1..MaxLoads : WF_vars(Respond(i)) /\ WF_vars(Settle(i))

\* the invocations a store function is waiting for
Outstanding(k) == {i \in 1..Len(calls) : calls[i].k = k}

\* tab t is open and loading
TabLoading(t) == \E j \in 1..Len(tabs) : tabs[j].id = t /\ tabs[j].loading

(***************************************************************************)
(* C13: when every invocation is eventually answered, with success or with *)
(* failure, a loading flag that an action has set is eventually false      *)
(* again, and it is false whenever no invocation of that action is         *)
(* outstanding: tab.loading (sendRequest), collectionsLoading,             *)
(* environmentsLoading, historyLoading and collectionRequestsLoading[c].   *)
(***************************************************************************)
C13_LoadingFlagsCleared ==
    /\ [](Outstanding("loadCollections") = {} => ~collectionsLoading)
    /\ [](Outstanding("loadEnvironments") = {} => ~environmentsLoading)
    /\ [](Outstanding("loadHistory") = {} => ~historyLoading)
    /\ [](\A c \in CollIds :
            {i \in Outstanding("loadCollectionRequests") :
                calls[i].arg.collectionId = c} = {}
            => ~collectionRequestsLoading[c])
    /\ [](\A t \in 1..MaxTabIds :
            {i \in Outstanding("sendRequest") : calls[i].arg.tabId = t} = {}
            => ~TabLoading(t))
    /\ collectionsLoading ~> ~collectionsLoading
    /\ environmentsLoading ~> ~environmentsLoading
    /\ historyLoading ~> ~historyLoading
    /\ \A c \in CollIds :
          collectionRequestsLoading[c] ~> ~collectionRequestsLoading[c]
    /\ \A t \in 1..MaxTabIds : TabLoading(t) ~> ~TabLoading(t)

\* the environments have been loaded, and now the backend has failed a
\* history load whose continuation has yet to run: the flag is still set
C13_Witness ==
    /\ environments # <<>>
    /\ historyLoading
    /\ \E i \in Outstanding("loadHistory") : calls[i].st = "err"

\* the step in which a user-triggered action finishes after its backend
\* call has failed
ActionFailed ==
    /\ ev'.op \in {"moveCollection", "moveRequest", "sendRequest",
                   "loadCollections"}
    /\ ~ev'.ok

(***************************************************************************)
(* C14 (as claimed): whenever the backend call of a user-triggered action  *)
(* fails, an error notification has been raised for the user by the time   *)
(* the action finishes.                                                    *)
(***************************************************************************)
C14_FailureNotified == [][ActionFailed => toast' = "error"]_vars

(***************************************************************************)
(* createCollection, renameCollection, updateCollectionAuth                *)
(***************************************************************************)
\* createCollection up to the await
CreateCollectionCall(name, parentId) ==
    /\ calls' = Append(calls, Invoke("create_collection", "createCollection",
                                     [name |-> name, parentId |-> parentId]))
    /\ ev' = [op |-> "createCollectionCall", name |-> name]
    /\ UNCHANGED <<storeVars, idCounter, dbVars>>

\* after the await: the created collection is put first; an error is
\* rethrown
CreateCollectionDone(i) ==
    /\ i \in 1..Len(calls)
    /\ calls[i].k = "createCollection"
    /\ calls[i].st \in {"ok", "err"}
    /\ collections' = IF calls[i].st = "ok"
                      THEN <<calls[i].res>> \o collections
                      ELSE collections
    /\ calls' = RemoveAt(calls, i)
    /\ ev' = [op |-> "createCollection", ok |-> (calls[i].st = "ok"),
              threw |-> (calls[i].st = "err")]
    /\ UNCHANGED <<tabs, activeTabId, selectedCollectionId, collectionRequests,
                   collectionsLoading, collectionRequestsLoading, envVars,
                   idCounter, dbVars>>

\* collections.map(collection => collection.id === collectionId ? {...} : collection)
PatchCollection(cs, collectionId, patch) ==
    [j \in 1..Len(cs) |->
        IF cs[j].id = collectionId THEN Spread(cs[j], patch) ELSE cs[j]]

\* renameCollection up to the await
RenameCollectionCall(collectionId, name) ==
    /\ calls' = Append(calls,
                    Invoke("update_collection_name", "renameCollection",
                           [collectionId |-> collectionId, name |-> name]))
    /\ ev' = [op |-> "renameCollectionCall", collectionId |-> collectionId]
    /\ UNCHANGED <<storeVars, idCounter, dbVars>>

\* after the await: the name is set in the list; an error is rethrown
RenameCollectionDone(i) ==
    /\ i \in 1..Len(calls)
    /\ calls[i].k = "renameCollection"
    /\ calls[i].st \in {"ok", "err"}
    /\ collections' = IF calls[i].st = "ok"
                      THEN PatchCollection(collections,
                               calls[i].arg.collectionId,
                               [name |-> calls[i].arg.name])
                      ELSE collections
    /\ calls' = RemoveAt(calls, i)
    /\ ev' = [op |-> "renameCollection", ok |-> (calls[i].st = "ok"),
              threw |-> (calls[i].st = "err")]
    /\ UNCHANGED <<tabs, activeTabId, selectedCollectionId, collectionRequests,
                   collectionsLoading, collectionRequestsLoading, envVars,
                   idCounter, dbVars>>

\* updateCollectionAuth up to the await
UpdateCollectionAuthCall(collectionId, auth) ==
    /\ calls' = Append(calls,
                    Invoke("update_collection_auth", "updateCollectionAuth",
                           [collectionId |-> collectionId, auth |-> auth]))
    /\ ev' = [op |-> "updateCollectionAuthCall",
              collectionId |-> collectionId]
    /\ UNCHANGED <<storeVars, idCounter, dbVars>>

\* after the await: the auth is set in the list; an error is rethrown
UpdateCollectionAuthDone(i) ==
    /\ i \in 1..Len(calls)
    /\ calls[i].k = "updateCollectionAuth"
    /\ calls[i].st \in {"ok", "err"}
    /\ collections' = IF calls[i].st = "ok"
                      THEN PatchCollection(collections,
                               calls[i].arg.collectionId,
                               [auth |-> calls[i].arg.auth])
                      ELSE collections
    /\ calls' = RemoveAt(calls, i)
    /\ ev' = [op |-> "updateCollectionAuth", ok |-> (calls[i].st = "ok"),
              threw |-> (calls[i].st = "err")]
    /\ UNCHANGED <<tabs, activeTabId, selectedCollectionId, collectionRequests,
                   collectionsLoading, collectionRequestsLoading, envVars,
                   idCounter, dbVars>>

(***************************************************************************)
(* deleteRequest: after the await it calls set twice, first on the cache   *)
(* (when a collection id was given), then on the tabs.  Each set is a      *)
(* transition of the store that its subscribers are notified of; the       *)
(* invocation is at stage "applying" between the two.                      *)
(***************************************************************************)
\* deleteRequest up to the await
DeleteRequestCall(requestId, collectionId) ==
    /\ calls' = Append(calls, Invoke("delete_request", "deleteRequest",
                    [id |-> requestId, collectionId |-> collectionId]))
    /\ ev' = [op |-> "deleteRequestCall", requestId |-> requestId]
    /\ UNCHANGED <<storeVars, idCounter, dbVars>>

\* the first set: the request is filtered out of the bucket named
DeleteRequestCache(cr, requestId, collectionId) ==
    CachePut(cr, collectionId,
             SelectSeq(CacheGet(cr, collectionId),
                       LAMBDA request : request.id # requestId))

\* a second set that closes the tabs and leaves activeTabId as it is
DeleteRequestTabsKeepActive(ts, active, requestId) ==
    [tabs |-> SelectSeq(ts, LAMBDA tab : tab.request.id # requestId),
     activeTabId |-> active]

\* the second set: the tabs of the request are closed; the active tab moves
\* to the tab now at the old index
DeleteRequestTabs(ts, active, requestId) ==
    LET newTabs == SelectSeq(ts, LAMBDA tab : tab.request.id # requestId)
        currentIndex == TabIndex(ts, active)
        nextIndex == NextIndex(currentIndex, Len(newTabs))
    IN [tabs |-> newTabs,
        activeTabId |->
            IF \E j \in 1..Len(ts) :
                  ts[j].request.id = requestId /\ ts[j].id = active
            THEN IF Len(newTabs) > 0
                 THEN IF At(newTabs, nextIndex) # <<>>
                      THEN At(newTabs, nextIndex)[1].id ELSE NoTab
                 ELSE NoTab
            ELSE active]

\* whether some handler is between two of its set calls
Applying == \E i \in 1..Len(calls) : calls[i].st = "applying"

\* after the await: an error is rethrown; else the first set when a
\* collection id was given, the second set at once when none was
DeleteRequestDone(i) ==
    /\ i \in 1..Len(calls)
    /\ calls[i].k = "deleteRequest"
    /\ calls[i].st \in {"ok", "err"}
    /\ LET requestId == calls[i].arg.id
           collectionId == calls[i].arg.collectionId
           closed == DeleteRequestTabs(tabs, activeTabId, requestId)
       IN IF calls[i].st = "err"
          THEN /\ calls' = RemoveAt(calls, i)
               /\ ev' = [op |-> "deleteRequest", requestId |-> requestId,
                         ok |-> FALSE, threw |-> TRUE]
               /\ UNCHANGED <<collectionRequests, tabs, activeTabId>>
          ELSE IF collectionId # Null
          THEN /\ collectionRequests' =
                     DeleteRequestCache(collectionRequests, requestId,
                                        collectionId)
               /\ calls' = [calls EXCEPT ![i].st = "applying"]
               /\ ev' = [op |-> "deleteRequestCache", requestId |-> requestId]
               /\ UNCHANGED <<tabs, activeTabId>>
          ELSE /\ tabs' = closed.tabs
               /\ activeTabId' = closed.activeTabId
               /\ calls' = RemoveAt(calls, i)
               /\ ev' = [op |-> "deleteRequest", requestId |-> requestId,
                         ok |-> TRUE, threw |-> FALSE]
               /\ UNCHANGED collectionRequests
    /\ UNCHANGED <<selectedCollectionId, collections, collectionsLoading,
                   collectionRequestsLoading, envVars, idCounter, dbVars>>

\* the second set, right after the first
DeleteRequestClose(i) ==
    /\ i \in 1..Len(calls)
    /\ calls[i].k = "deleteRequest"
    /\ calls[i].st = "applying"
    /\ LET closed == DeleteRequestTabs(tabs, activeTabId, calls[i].arg.id)
       IN /\ tabs' = closed.tabs
          /\ activeTabId' = closed.activeTabId
    /\ calls' = RemoveAt(calls, i)
    /\ ev' = [op |-> "deleteRequest", requestId |-> calls[i].arg.id,
              ok |-> TRUE, threw |-> FALSE]
    /\ UNCHANGED <<selectedCollectionId, collections, collectionRequests,
                   collectionsLoading, collectionRequestsLoading, envVars,
                   idCounter, dbVars>>

(***************************************************************************)
(* createEnvironment, deleteEnvironment, clearHistory                      *)
(***************************************************************************)
\* createEnvironment up to the await
CreateEnvironmentCall(name) ==
    /\ calls' = Append(calls, Invoke("create_environment", "createEnvironment",
                                     [name |-> name]))
    /\ ev' = [op |-> "createEnvironmentCall", name |-> name]
    /\ UNCHANGED <<storeVars, idCounter, dbVars>>

\* after the await: the created environment is put first; an error is
\* rethrown
CreateEnvironmentDone(i) ==
    /\ i \in 1..Len(calls)
    /\ calls[i].k = "createEnvironment"
    /\ calls[i].st \in {"ok", "err"}
    /\ environments' = IF calls[i].st = "ok"
                       THEN <<calls[i].res>> \o environments
                       ELSE environments
    /\ calls' = RemoveAt(calls, i)
    /\ ev' = [op |-> "createEnvironment", ok |-> (calls[i].st = "ok"),
              threw |-> (calls[i].st = "err")]
    /\ UNCHANGED <<tabs, activeTabId, selectedCollectionId, collections,
                   collectionRequests, collectionsLoading,
                   collectionRequestsLoading, activeEnvironment, history,
                   environmentsLoading, historyLoading, idCounter, dbVars>>

\* deleteEnvironment up to the await
DeleteEnvironmentCall(id) ==
    /\ calls' = Append(calls, Invoke("delete_environment", "deleteEnvironment",
                                     [id |-> id]))
    /\ ev' = [op |-> "deleteEnvironmentCall", id |-> id]
    /\ UNCHANGED <<storeVars, idCounter, dbVars>>

\* after the await: the environment leaves the list, and the active
\* environment is cleared when it was this one; an error is rethrown
DeleteEnvironmentDone(i) ==
    /\ i \in 1..Len(calls)
    /\ calls[i].k = "deleteEnvironment"
    /\ calls[i].st \in {"ok", "err"}
    /\ IF calls[i].st = "ok"
       THEN /\ environments' = SelectSeq(environments,
                                  LAMBDA env : env.id # calls[i].arg.id)
            /\ activeEnvironment' =
                  IF activeEnvironment # <<>>
                     /\ activeEnvironment[1].id = calls[i].arg.id
                  THEN <<>> ELSE activeEnvironment
       ELSE UNCHANGED <<environments, activeEnvironment>>
    /\ calls' = RemoveAt(calls, i)
    /\ ev' = [op |-> "deleteEnvironment", ok |-> (calls[i].st = "ok"),
              threw |-> (calls[i].st = "err")]
    /\ UNCHANGED <<tabs, activeTabId, selectedCollectionId, collections,
                   collectionRequests, collectionsLoading,
                   collectionRequestsLoading, history, environmentsLoading,
                   historyLoading, idCounter, dbVars>>

\* clearHistory up to the await
ClearHistoryCall ==
    /\ calls' = Append(calls, Invoke("clear_request_history", "clearHistory",
                                     <<>>))
    /\ ev' = [op |-> "clearHistoryCall"]
    /\ UNCHANGED <<storeVars, idCounter, dbVars>>

\* a clearHistory that empties the list before it knows the outcome
HistoryClearedAnyway(st, old) == <<>>

\* the history once clearHistory's invocation has settled
HistoryCleared(st, old) == IF st = "ok" THEN <<>> ELSE old

\* after the await: the list is emptied; an error is rethrown
ClearHistoryDone(i) ==
    /\ i \in 1..Len(calls)
    /\ calls[i].k = "clearHistory"
    /\ calls[i].st \in {"ok", "err"}
    /\ history' = HistoryCleared(calls[i].st, history)
    /\ calls' = RemoveAt(calls, i)
    /\ ev' = [op |-> "clearHistory", ok |-> (calls[i].st = "ok"),
              threw |-> (calls[i].st = "err")]
    /\ UNCHANGED <<tabs, activeTabId, selectedCollectionId, collections,
                   collectionRequests, collectionsLoading,
                   collectionRequestsLoading, environments, activeEnvironment,
                   environmentsLoading, historyLoading, idCounter, dbVars>>

(***************************************************************************)
(* Store functions called with any id, also one that names no tab or no    *)
(* collection of the store.                                                *)
(***************************************************************************)
TabIds(ts) == {ts[j].id : j \in 1..Len(ts)}

CollectionIds(cs) == {cs[j].id : j \in 1..Len(cs)}

\* updateTab: the fields given overwrite those of the tab with the id
UpdateTab(tabId, updates) ==
    /\ tabs' = [j \in 1..Len(tabs) |->
                  IF tabs[j].id = tabId THEN Spread(tabs[j], updates)
                  ELSE tabs[j]]
    /\ ev' = [op |-> "updateTab", tabId |-> tabId]

\* sendRequest: if (!tab) return
SendRequest(tabId) ==
    IF tabId \in TabIds(tabs)
    THEN SendRequestCall(tabId)
    ELSE /\ ev' = [op |-> "sendRequestCall", tabId |-> tabId, threw |-> "",
                   authHeaders |-> EmptyHeaders]
         /\ UNCHANGED <<storeVars, idCounter, dbVars, calls>>

\* saveRequest: if (!tab) return, after logging
SaveRequest(tabId, name, collectionId) ==
    IF tabId \in TabIds(tabs)
    THEN SaveRequestCall(tabId, name, collectionId)
    ELSE /\ ev' = [op |-> "saveRequestCall", tabId |-> tabId]
         /\ UNCHANGED <<storeVars, idCounter, dbVars, calls>>

(***************************************************************************)
(* Specification SpecStale: collection A with R1, its bucket fetched, one  *)
(* tab open on R1; collections B and C and tabs 2 and 3 do not exist.      *)
(* The store functions are called with every id, existing or not.          *)
(***************************************************************************)
InitStale ==
    /\ InitIdle
    /\ dbCollections = [c \in {"A"} |-> Coll("A", Null)]
    /\ dbRequests = [r \in {"R1"} |-> Req(r, "A")]
    /\ collections = DbListCollections(dbCollections)
    /\ collectionRequests =
          <<[key |-> "A", requests |-> DbListRequests(dbRequests, "A")]>>
    /\ tabs = <<NewTab(1, <<dbRequests["R1"]>>, Null)>>
    /\ activeTabId = 1
    /\ idCounter = 1

\* the variables a function of the tabs leaves alone
TabFrame ==
    UNCHANGED <<selectedCollectionId, collections, collectionRequests,
                collectionsLoading, collectionRequestsLoading, envVars,
                idCounter, dbVars, calls, uiVars>>

NextStale ==
    \/ \E t \in 1..MaxTabIds : CloseTab(t) /\ TabFrame
    \/ \E t \in 1..MaxTabIds :
          UpdateTab(t, [name |-> "tab"]) /\ UNCHANGED activeTabId /\ TabFrame
    \/ \E t \in 1..MaxTabIds, u \in DraftEdits :
          UpdateTabRequest(t, u) /\ UNCHANGED activeTabId /\ TabFrame
    \/ \E t \in 1..MaxTabIds :
          Len(calls) < MaxLoads /\ SendRequest(t) /\ UNCHANGED uiVars
    \/ \E t \in 1..MaxTabIds :
          Len(calls) < MaxLoads /\ SaveRequest(t, "saved", Null)
                                /\ UNCHANGED uiVars
    \/ \E c \in CollIds :
          Len(calls) < MaxLoads /\ RenameCollectionCall(c, "renamed")
                                /\ UNCHANGED uiVars
    \/ \E c \in CollIds :
          Len(calls) < MaxLoads
          /\ UpdateCollectionAuthCall(c, Auth("bearer", <<>>, <<>>, "T"))
          /\ UNCHANGED uiVars
    \/ \E c \in CollIds :
          Len(calls) < MaxLoads /\ DeleteCollectionCall(c) /\ UNCHANGED uiVars
    \/ \E i \in 1..Len(calls) : BackendOk(i)
    \/ \E i \in 1..Len(calls) : BackendErr(i)
    \/ \E i \in 1..Len(calls) : SendRequestDone(i) /\ UNCHANGED uiVars
    \/ \E i \in 1..Len(calls) : SaveRequestDone(i) /\ UNCHANGED uiVars
    \/ \E i \in 1..Len(calls) : RenameCollectionDone(i) /\ UNCHANGED uiVars
    \/ \E i \in 1..Len(calls) : UpdateCollectionAuthDone(i) /\ UNCHANGED uiVars
    \/ \E i \in 1..Len(calls) : DeleteCollectionDone(i) /\ UNCHANGED uiVars

SpecStale == InitStale /\ [][NextStale]_vars

\* the step is a call of a tab function with an id that no tab has
StaleTabCall ==
    /\ ev'.op \in {"closeTab", "updateTab", "updateTabRequest",
                   "sendRequestCall", "saveRequestCall"}
    /\ ev'.tabId \notin TabIds(tabs)

\* the step is a call of a collection function with an id that no
\* collection of the store has
StaleCollectionCall ==
    \/ /\ ev'.op \in {"renameCollectionCall", "updateCollectionAuthCall"}
       /\ ev'.collectionId \notin CollectionIds(collections)
    \/ /\ ev'.op = "deleteCollectionCall"
       /\ ev'.id \notin CollectionIds(collections)

(***************************************************************************)
(* C15 (as claimed): closeTab, updateTab, updateTabRequest, sendRequest    *)
(* and saveRequest called with a tab id that is not in tabs, and           *)
(* renameCollection, updateCollectionAuth and deleteCollection called with *)
(* a collection id that is not in collections, leave the store unchanged   *)
(* and issue no backend call.                                              *)
(***************************************************************************)
C15_StaleReferenceNoOp ==
    [][(StaleTabCall \/ StaleCollectionCall)
       => (UNCHANGED storeVars /\ calls' = calls)]_vars

(***************************************************************************)
(* Specification SpecFail: collection A with R1, its bucket fetched, R1    *)
(* open in a tab, environment E1 active, one history entry.  The twelve    *)
(* mutating actions are called one at a time, each awaited by the handler  *)
(* that calls it, and the backend answers each with success or failure.    *)
(* A collection is created, and it is that collection which is then        *)
(* renamed, given an auth, moved below A and deleted.                      *)
(***************************************************************************)
InitFail ==
    /\ dbCollections = [c \in {"A"} |-> Coll(c, Null)]
    /\ dbRequests = [r \in {"R1"} |-> Req(r, "A")]
    /\ dbIds = 0
    /\ dbEnvironments = [e \in {"E1"} |-> Env("E1", "dev", TRUE)]
    /\ dbHistory = <<HistoryEntry("H1")>>
    /\ tabs = <<NewTab(1, <<dbRequests["R1"]>>, Null)>>
    /\ activeTabId = 1
    /\ idCounter = 1
    /\ selectedCollectionId = "A"
    /\ collections = DbListCollections(dbCollections)
    /\ collectionRequests =
          <<[key |-> "A", requests |-> DbListRequests(dbRequests, "A")]>>
    /\ collectionsLoading = FALSE
    /\ collectionRequestsLoading = NoLoading
    /\ environments = DbListEnvironments(dbEnvironments)
    /\ activeEnvironment = DbActiveEnvironment(dbEnvironments)
    /\ history = dbHistory
    /\ environmentsLoading = FALSE
    /\ historyLoading = FALSE
    /\ InitSidebar
    /\ calls = <<>>
    /\ ev = [op |-> "init"]

\* a store function may be called: the action before it has settled
MayCall == calls = <<>>

\* the collection createCollection adds to A
Created == DbNextCollectionId([c \in {"A"} |-> Coll(c, Null)])

\* the Sidebar offers rename, auth, move and delete on a listed collection
Listed(c) == c \in CollectionIds(collections)

NextFail ==
    \/ MayCall /\ CreateCollectionCall("new", Null) /\ UNCHANGED uiVars
    \/ MayCall /\ CreateEnvironmentCall("dev") /\ UNCHANGED uiVars
    \/ MayCall /\ Listed(Created) /\ DeleteCollectionCall(Created)
               /\ UNCHANGED uiVars
    \/ MayCall /\ Listed(Created) /\ RenameCollectionCall(Created, "renamed")
               /\ UNCHANGED uiVars
    \/ MayCall /\ Listed(Created)
               /\ UpdateCollectionAuthCall(Created,
                                           Auth("bearer", <<>>, <<>>, "T"))
               /\ UNCHANGED uiVars
    \/ MayCall /\ Listed(Created) /\ MoveCollectionCall(Created, "A")
               /\ UNCHANGED uiVars
    \/ MayCall /\ "R1" \in RenderedRequests /\ DeleteRequestCall("R1", "A")
               /\ UNCHANGED uiVars
    \/ MayCall /\ "R1" \in RenderedRequests /\ MoveRequestCall("R1", "A")
               /\ UNCHANGED uiVars
    \/ MayCall /\ HandleRenameRequest("R1", "saved")
    \/ MayCall /\ ActiveTab # <<>>
               /\ HandleSave(ActiveTab[1].name,
                           ActiveTab[1].request.collection_id)
    \/ MayCall /\ environments # <<>>
               /\ DeleteEnvironmentCall(environments[1].id)
               /\ UNCHANGED uiVars
    \/ MayCall /\ history # <<>> /\ ClearHistoryCall /\ UNCHANGED uiVars
    \/ \E i \in 1..Len(calls) : ~Applying /\ BackendOk(i)
    \/ \E i \in 1..Len(calls) : ~Applying /\ BackendErr(i)
    \/ \E i \in 1..Len(calls) :
          ~Applying /\ CreateCollectionDone(i) /\ UNCHANGED uiVars
    \/ \E i \in 1..Len(calls) :
          ~Applying /\ CreateEnvironmentDone(i) /\ UNCHANGED uiVars
    \/ \E i \in 1..Len(calls) :
          ~Applying /\ DeleteCollectionDone(i) /\ UNCHANGED uiVars
    \/ \E i \in 1..Len(calls) :
          ~Applying /\ RenameCollectionDone(i) /\ UNCHANGED uiVars
    \/ \E i \in 1..Len(calls) :
          ~Applying /\ UpdateCollectionAuthDone(i) /\ UNCHANGED uiVars
    \/ \E i \in 1..Len(calls) :
          ~Applying /\ MoveCollectionDone(i) /\ UNCHANGED uiVars
    \/ \E i \in 1..Len(calls) :
          ~Applying /\ LoadCollectionsDone(i) /\ UNCHANGED uiVars
    \/ \E i \in 1..Len(calls) :
          ~Applying /\ DeleteRequestDone(i) /\ UNCHANGED uiVars
    \/ \E i \in 1..Len(calls) : DeleteRequestClose(i) /\ UNCHANGED uiVars
    \/ \E i \in 1..Len(calls) :
          ~Applying /\ MoveRequestDone(i) /\ UNCHANGED uiVars
    \/ \E i \in 1..Len(calls) :
          ~Applying /\ RenameRequestDone(i) /\ UNCHANGED uiVars
    \/ \E i \in 1..Len(calls) :
          ~Applying /\ SaveRequestDone(i) /\ UNCHANGED uiVars
    \/ \E i \in 1..Len(calls) :
          ~Applying /\ LoadCollectionRequestsDone(i) /\ UNCHANGED uiVars
    \/ \E i \in 1..Len(calls) :
          ~Applying /\ DeleteEnvironmentDone(i) /\ UNCHANGED uiVars
    \/ \E i \in 1..Len(calls) :
          ~Applying /\ ClearHistoryDone(i) /\ UNCHANGED uiVars

SpecFail == InitFail /\ [][NextFail]_vars

\* the actions that await one backend command and then update the store
FailableActions ==
    {"createCollection", "createEnvironment", "deleteCollection",
     "renameCollection", "updateCollectionAuth", "moveCollection",
     "deleteRequest", "moveRequest", "renameRequest", "saveRequest",
     "deleteEnvironment", "clearHistory"}

\* the steps with which these actions start
FailableCalls ==
    {"createCollectionCall", "createEnvironmentCall", "deleteCollectionCall",
     "renameCollectionCall", "updateCollectionAuthCall", "moveCollectionCall",
     "deleteRequestCall", "moveRequestCall", "renameRequestCall",
     "saveRequestCall", "deleteEnvironmentCall", "clearHistoryCall"}

\* C16: when the backend command of one of the twelve actions fails, the
\* store is what it was when the action was called (neither the call, nor the
\* backend's answer, nor the catch block changes it) and the action rethrows.
C16_FailureLeavesState ==
    [][/\ (ev'.op \in FailableCalls \/ ev'.op = "backend")
          => UNCHANGED storeVars
       /\ (ev'.op \in FailableActions /\ ~ev'.ok)
          => (UNCHANGED storeVars /\ ev'.threw)]_vars

\* clearHistory has failed and the history is still shown
C16_Witness ==
    /\ ev.op = "clearHistory"
    /\ ~ev.ok
    /\ ev.threw
    /\ history # <<>>
    /\ Listed(Created)

(***************************************************************************)
(* SpecCascade: SpecDelete where the user also selects a collection and    *)
(* activates a tab or none, so that the deleted collections may hold the   *)
(* selection and the active tab.                                           *)
(***************************************************************************)
\* setSelectedCollection
SetSelectedCollection(id) ==
    /\ selectedCollectionId' = id
    /\ ev' = [op |-> "setSelectedCollection", id |-> id]
    /\ UNCHANGED <<tabs, activeTabId, collections, collectionRequests,
                   collectionsLoading, collectionRequestsLoading, envVars,
                   idCounter, dbVars, calls, uiVars>>

NextCascade ==
    \/ NextDelete
    \/ \E c \in CollectionIds(collections) \cup {Null} :
          /\ c # selectedCollectionId
          /\ SetSelectedCollection(c)
    \/ \E t \in TabIds(tabs) \cup {NoTab} :
          /\ t # activeTabId
          /\ SetActiveTab(t)
          /\ UNCHANGED <<tabs, selectedCollectionId, collections,
                         collectionRequests, collectionsLoading,
                         collectionRequestsLoading, envVars, idCounter,
                         dbVars, calls, uiVars>>

SpecCascade == InitDelete /\ [][NextCascade]_vars

\* C17: when deleteCollection(C) succeeds, with D the collection C and its
\* transitive children in the list: if the active tab is one of the closed
\* tabs (its request is of a collection in D), activeTabId becomes the id of
\* a tab that is left, or null when none is left, and else it is unchanged;
\* selectedCollectionId becomes null if it is in D and else is unchanged.
C17_CascadePointers ==
    [][(ev'.op = "deleteCollection" /\ ev'.ok) =>
          LET Closed(S) == \A i \in 1..Len(collections) :
                              collections[i].parent_id \in S =>
                                 collections[i].id \in S
              D == {x \in CollIds :
                      \A S \in SUBSET CollIds :
                         (ev'.id \in S /\ Closed(S)) => x \in S}
              closedTabs == {tabs[i].id : i \in
                               {j \in 1..Len(tabs) :
                                  tabs[j].request.collection_id \in D}}
          IN /\ IF activeTabId \in closedTabs
                THEN IF tabs' = <<>> THEN activeTabId' = NoTab
                     ELSE activeTabId' \in TabIds(tabs')
                ELSE activeTabId' = activeTabId
             /\ IF selectedCollectionId \in D
                THEN selectedCollectionId' = Null
                ELSE selectedCollectionId' = selectedCollectionId]_vars

\* B, selected and holding the active tab's request, has been deleted: the
\* selection is cleared and the first tab left is active
C17_Witness ==
    /\ ev.op = "deleteCollection"
    /\ ev.ok
    /\ ev.id = "B"
    /\ selectedCollectionId = Null
    /\ Len(tabs) = 2
    /\ activeTabId = tabs[1].id
    /\ \A i \in 1..Len(collections) : collections[i].id # "B"

(***************************************************************************)
(* SpecSaved: the life of tabs and of the requests behind them.            *)
(* Collection A holds R1 and its bucket is fetched; tabs are opened from   *)
(* a listed request, from the new-request form and empty, edited, saved    *)
(* into A and closed, R1 is renamed, moved and deleted, and A is deleted.  *)
(***************************************************************************)
\* Sidebar.handleCreateRequest's tempRequest with no target collection
TempRequest ==
    [name |-> "temp", method |-> "GET", url |-> "https://",
     headers |-> EmptyHeaders, body |-> Null, collection_id |-> Null]

\* Sidebar.handleCreateRequest with no target collection: addTab(tempRequest)
HandleCreateRequest ==
    /\ AddTab(<<TempRequest>>, Null)
    /\ UNCHANGED <<selectedCollectionId, collections, collectionRequests,
                   collectionsLoading, collectionRequestsLoading, dbVars, calls,
                   envVars, uiVars>>

\* the url field retyped as it was
Retyped == [url |-> "https://"]

MaxOpen == 1      \* tabs open at once

InitSaved ==
    /\ InitStore
    /\ dbCollections = [c \in {"A"} |-> Coll("A", Null)]
    /\ dbRequests = [r \in {"R1"} |-> Req(r, "A")]
    /\ collections = DbListCollections(dbCollections)
    /\ collectionRequests =
          <<[key |-> "A", requests |-> DbListRequests(dbRequests, "A")]>>

NextSaved ==
    \/ Len(tabs) < MaxOpen /\ NewRequestClick
    \/ Len(tabs) < MaxOpen /\ HandleCreateRequest
    \/ \E i \in 1..Len(ReqOrder) :
          Len(tabs) < MaxOpen /\ HandleLoadRequest("A", i)
    \/ \E t \in 1..MaxTabIds : CloseTabClick(t)
    \/ EditRequest(Retyped)
    \/ MayCall /\ Listed("A") /\ HandleSave("saved", "A")
    \/ MayCall /\ HandleRenameRequest("R1", "saved")
    \/ MayCall /\ "R1" \in RenderedRequests /\ MoveRequestCall("R1", "A")
               /\ UNCHANGED uiVars
    \/ MayCall /\ "R1" \in RenderedRequests /\ DeleteRequestCall("R1", "A")
               /\ UNCHANGED uiVars
    \/ MayCall /\ Listed("A") /\ DeleteCollectionCall("A") /\ UNCHANGED uiVars
    \/ \E i \in 1..Len(calls) : ~Applying /\ BackendOk(i)
    \/ \E i \in 1..Len(calls) : ~Applying /\ BackendErr(i)
    \/ \E i \in 1..Len(calls) :
          ~Applying /\ SaveRequestDone(i) /\ UNCHANGED uiVars
    \/ \E i \in 1..Len(calls) :
          ~Applying /\ LoadCollectionRequestsDone(i) /\ UNCHANGED uiVars
    \/ \E i \in 1..Len(calls) :
          ~Applying /\ RenameRequestDone(i) /\ UNCHANGED uiVars
    \/ \E i \in 1..Len(calls) :
          ~Applying /\ MoveRequestDone(i) /\ UNCHANGED uiVars
    \/ \E i \in 1..Len(calls) :
          ~Applying /\ DeleteRequestDone(i) /\ UNCHANGED uiVars
    \/ \E i \in 1..Len(calls) : DeleteRequestClose(i) /\ UNCHANGED uiVars
    \/ \E i \in 1..Len(calls) :
          ~Applying /\ DeleteCollectionDone(i) /\ UNCHANGED uiVars

SpecSaved == InitSaved /\ [][NextSaved]_vars

\* the request handed to addTab carries an id
SeedHasId(seed) ==
    /\ seed # <<>>
    /\ "id" \in DOMAIN seed[1]
    /\ seed[1].id # Null

\* C18: a tab whose request has no id has saved = false, in every state;
\* and the tab addTab appends has saved = true exactly when the request it
\* was handed carries an id.
C18_NoIdIsUnsaved ==
    /\ [](\A i \in 1..Len(tabs) : tabs[i].request.id = Null => ~tabs[i].saved)
    /\ [][ev'.op = "addTab" =>
            (tabs'[Len(tabs')].saved <=> SeedHasId(ev'.seed))]_vars

\* a tab opened from the form, without an id, is unsaved and was the last
\* one added
C18_Witness ==
    /\ ev.op = "addTab"
    /\ ~SeedHasId(ev.seed)
    /\ ev.seed # <<>>
    /\ \E i \in 1..Len(tabs) : tabs[i].request.id = Null /\ ~tabs[i].saved
    /\ dbIds > 0

\* the ids of the requests in the buckets of cr
CachedIds(cr) == UNION {BucketIds(cr, k) : k \in CacheKeys(cr)}

\* a step in which deleteCollection, deleteRequest, moveRequest or
\* renameRequest calls set after its backend command has succeeded
ResponseApplied ==
    \/ ev'.op = "deleteRequestCache"
    \/ /\ ev'.op \in {"deleteCollection", "deleteRequest", "moveRequest",
                      "renameRequest"}
       /\ ev'.ok

\* C19: deleteCollection, deleteRequest, moveRequest and renameRequest apply
\* what follows from one backend response in one step: after the step none
\* of the action's sets is still to come, and no tab is left open on a
\* request that the step has removed from the cache.
C19_AtomicApplication ==
    [][ResponseApplied =>
          /\ ~Applying'
          /\ \A i \in 1..Len(tabs') :
                tabs'[i].request.id \notin
                   (CachedIds(collectionRequests) \
                       CachedIds(collectionRequests'))]_vars

(***************************************************************************)
(* SpecSend: sending from tabs.  R1 of collection A and an empty draft are *)
(* open; the user switches between the tabs, opens and closes tabs and     *)
(* presses Send on the tab shown, while earlier sends are in flight.       *)
(***************************************************************************)
NextSend ==
    \/ NewRequestClick
    \/ \E t \in 1..MaxTabIds : CloseTabClick(t)
    \/ \E t \in 1..MaxTabIds : TabClick(t)
    \/ Len(calls) < MaxCalls /\ HandleSend
    \/ \E i \in 1..Len(calls) : BackendOk(i)
    \/ \E i \in 1..Len(calls) : BackendErr(i)
    \/ \E i \in 1..Len(calls) : SendRequestDone(i) /\ UNCHANGED uiVars

SpecSend == InitDirty /\ [][NextSend]_vars

\* the send_request invocations of sendRequest(tabId) not yet settled
SendsInFlight(tabId) ==
    {i \in 1..Len(calls) :
        calls[i].k = "sendRequest" /\ calls[i].arg.tabId = tabId}

\* C20: at any time at most one send_request invocation of a tab is in
\* flight, and a step that sends on a tab finds none in flight for it.
C20_SendsSerialized ==
    /\ [](\A t \in 1..MaxTabIds : Cardinality(SendsInFlight(t)) <= 1)
    /\ [][(ev'.op = "sendRequestCall" /\ Len(calls') > Len(calls))
             => SendsInFlight(ev'.tabId) = {}]_vars

\* two tabs are sending at once, each with its one invocation and its
\* Send button disabled
C20_Witness ==
    /\ Len(tabs) >= 2
    /\ \E a, b \in 1..Len(tabs) :
          /\ a # b
          /\ tabs[a].loading /\ tabs[b].loading
          /\ ~SendEnabled(tabs[a]) /\ ~SendEnabled(tabs[b])
          /\ Cardinality(SendsInFlight(tabs[a].id)) = 1
          /\ Cardinality(SendsInFlight(tabs[b].id)) = 1

\* the collections with a loadCollectionRequests invocation not yet settled
LoadsInFlight ==
    {calls[i].arg.collectionId :
        i \in {j \in 1..Len(calls) : calls[j].k = "loadCollectionRequests"}}

\* C21: while a send of an open tab is in flight the tab is loading, and
\* while a loadCollectionRequests(c) is in flight collectionRequestsLoading[c]
\* is true: with two calls overlapping, the one that settles first does not
\* clear the flag of the other.
C21_FlagOwnedByCall ==
    /\ \A i \in 1..Len(tabs) :
          SendsInFlight(tabs[i].id) # {} => tabs[i].loading
    /\ \A c \in LoadsInFlight : collectionRequestsLoading[c]

(***************************************************************************)
(* importPostmanCollection                                                 *)
(***************************************************************************)
\* a bundle is given by how deep its folders are nested: 0 for none
MaxDepth == 2

\* up to the first await
ImportPostmanCollectionCall(jsonData) ==
    /\ calls' = Append(calls, Invoke("import_postman_collection",
                                     "importPostmanCollection",
                                     [jsonData |-> jsonData, reloaded |-> {},
                                      todo |-> <<>>]))
    /\ ev' = [op |-> "importPostmanCollectionCall", jsonData |-> jsonData]
    /\ UNCHANGED <<storeVars, idCounter, dbVars>>

\* after the first await: on success loadCollections is called and awaited;
\* on failure the error is rethrown
ImportPostmanCollectionDone(i) ==
    /\ i \in 1..Len(calls)
    /\ calls[i].k = "importPostmanCollection"
    /\ calls[i].st \in {"ok", "err"}
    /\ IF calls[i].st = "ok"
       THEN /\ collectionsLoading' = TRUE
            /\ calls' = LoadCollectionsBegin(
                           [calls EXCEPT ![i].st = "reloading"])
            /\ ev' = [op |-> "importPostmanCollectionLoad"]
       ELSE /\ calls' = RemoveAt(calls, i)
            /\ ev' = [op |-> "importPostmanCollection", ok |-> FALSE,
                      threw |-> TRUE, id |-> Null, reloaded |-> {}]
            /\ UNCHANGED collectionsLoading
    /\ UNCHANGED <<tabs, activeTabId, selectedCollectionId, collections,
                   collectionRequests, collectionRequestsLoading, envVars,
                   idCounter, dbVars>>

\* the collections the loop reloads: the imported one and those whose
\* parent_id it is, in the order of the list
ImportedAndChildren(cs, id) ==
    LET hit == SelectSeq(cs, LAMBDA col : col.id = id \/ col.parent_id = id)
    IN [n \in 1..Len(hit) |-> hit[n].id]

\* a step of the loop: loadCollectionRequests for the next collection, or
\* the return when none is left
ImportLoopStep(i, todo) ==
    IF todo = <<>>
    THEN /\ calls' = RemoveAt(calls, i)
         /\ ev' = [op |-> "importPostmanCollection", ok |-> TRUE,
                   threw |-> FALSE, id |-> calls[i].res.id,
                   reloaded |-> calls[i].arg.reloaded]
         /\ UNCHANGED collectionRequestsLoading
    ELSE LET b == LoadCollectionRequestsBegin(Head(todo),
                      collectionRequestsLoading,
                      [calls EXCEPT ![i].st = "requests",
                                    ![i].arg.todo = Tail(todo),
                                    ![i].arg.reloaded = @ \cup {Head(todo)}])
         IN /\ collectionRequestsLoading' = b.loading
            /\ calls' = b.calls
            /\ ev' = [op |-> "importPostmanCollectionRequests",
                      collectionId |-> Head(todo)]

\* loadCollections has settled: the list is read and the loop begins
ImportPostmanCollectionReloaded(i) ==
    /\ i \in 1..Len(calls)
    /\ calls[i].k = "importPostmanCollection"
    /\ calls[i].st = "reloading"
    /\ \A j \in 1..Len(calls) : calls[j].k # "loadCollections"
    /\ ImportLoopStep(i, ImportedAndChildren(collections, calls[i].res.id))
    /\ UNCHANGED <<tabs, activeTabId, selectedCollectionId, collections,
                   collectionRequests, collectionsLoading, envVars,
                   idCounter, dbVars>>

\* a loadCollectionRequests of the loop has settled: the loop goes on
ImportPostmanCollectionNext(i) ==
    /\ i \in 1..Len(calls)
    /\ calls[i].k = "importPostmanCollection"
    /\ calls[i].st = "requests"
    /\ \A j \in 1..Len(calls) : calls[j].k # "loadCollectionRequests"
    /\ ImportLoopStep(i, calls[i].arg.todo)
    /\ UNCHANGED <<tabs, activeTabId, selectedCollectionId, collections,
                   collectionRequests, collectionsLoading, envVars,
                   idCounter, dbVars>>

(***************************************************************************)
(* SpecImport: importing bundles, one at a time, into a workspace that is  *)
(* empty or holds collection A with R1.                                    *)
(***************************************************************************)
InitImport ==
    /\ InitStore
    /\ \E had \in SUBSET {"A"} :
          /\ dbCollections = [c \in had |-> Coll(c, Null)]
          /\ dbRequests = [r \in {x \in {"R1"} : had # {}} |-> Req(r, "A")]
    /\ collections = DbListCollections(dbCollections)
    /\ collectionRequests = <<>>

NextImport ==
    \/ \E depth \in 0..MaxDepth :
          MayCall /\ ImportPostmanCollectionCall(depth) /\ UNCHANGED uiVars
    \/ \E i \in 1..Len(calls) : BackendOk(i)
    \/ \E i \in 1..Len(calls) : BackendErr(i)
    \/ \E i \in 1..Len(calls) :
          ImportPostmanCollectionDone(i) /\ UNCHANGED uiVars
    \/ \E i \in 1..Len(calls) : LoadCollectionsDone(i) /\ UNCHANGED uiVars
    \/ \E i \in 1..Len(calls) :
          ImportPostmanCollectionReloaded(i) /\ UNCHANGED uiVars
    \/ \E i \in 1..Len(calls) :
          LoadCollectionRequestsDone(i) /\ UNCHANGED uiVars
    \/ \E i \in 1..Len(calls) :
          ImportPostmanCollectionNext(i) /\ UNCHANGED uiVars

SpecImport == InitImport /\ [][NextImport]_vars

\* C22: when importPostmanCollection has succeeded, the collection list is
\* the backend's, and loadCollectionRequests has been called for the
\* imported collection and every transitive descendant of it in that list,
\* and for no other collection.
C22_ImportRefresh ==
    [][(ev'.op = "importPostmanCollection" /\ ev'.ok) =>
          /\ collections' = DbListCollections(dbCollections')
          /\ ev'.reloaded =
                GetDescendantIds(collections', ev'.id, Len(collections') + 1)]_vars

(***************************************************************************)
(* SpecLazy: buckets fetched on demand.  A and B are top-level             *)
(* collections, A holds R1 and B holds R2; only A's bucket has been        *)
(* fetched.  Collections are expanded, requests shown are dragged onto     *)
(* collections and deleted, and collections are deleted.                   *)
(***************************************************************************)
\* Sidebar.toggleCollection expanding a collection: the requests are loaded
\* when none are cached and no load is under way
ToggleCollection(collectionId) ==
    /\ collectionId \in Rendered(collections)
    /\ IF /\ CacheGet(collectionRequests, collectionId) = <<>>
          /\ ~collectionRequestsLoading[collectionId]
       THEN LoadCollectionRequestsCall(collectionId)
       ELSE /\ ev' = [op |-> "toggleCollection", collectionId |-> collectionId]
            /\ UNCHANGED <<storeVars, idCounter, dbVars, calls>>
    /\ UNCHANGED uiVars

InitLazy ==
    /\ InitStore
    /\ dbCollections = [c \in {"A", "B"} |-> Coll(c, Null)]
    /\ dbRequests = [r \in ReqIds |-> Req(r, IF r = "R1" THEN "A" ELSE "B")]
    /\ collections = DbListCollections(dbCollections)
    /\ collectionRequests =
          <<[key |-> "A", requests |-> DbListRequests(dbRequests, "A")]>>

NextLazy ==
    \/ \E c \in CollIds : Len(calls) < MaxLoads /\ ToggleCollection(c)
    \/ \E r \in ReqIds, over \in {t \in DropTargets : t.type = "collection"} :
          /\ Len(calls) < MaxLoads
          /\ HandleDragEndRequest(r, over)
          /\ UNCHANGED uiVars
    \/ \E r \in ReqIds, c \in Rendered(collections) :
          /\ Len(calls) < MaxLoads
          /\ r \in BucketIds(collectionRequests, c)
          /\ DeleteRequestCall(r, c)
          /\ UNCHANGED uiVars
    \/ \E c \in Rendered(collections) :
          Len(calls) < MaxLoads /\ DeleteCollectionCall(c) /\ UNCHANGED uiVars
    \/ \E i \in 1..Len(calls) : ~Applying /\ BackendOk(i)
    \/ \E i \in 1..Len(calls) : ~Applying /\ BackendErr(i)
    \/ \E i \in 1..Len(calls) :
          LoadCollectionRequestsDone(i) /\ UNCHANGED uiVars
    \/ \E i \in 1..Len(calls) : MoveRequestDone(i) /\ UNCHANGED uiVars
    \/ \E i \in 1..Len(calls) : DeleteRequestDone(i) /\ UNCHANGED uiVars
    \/ \E i \in 1..Len(calls) : DeleteRequestClose(i) /\ UNCHANGED uiVars
    \/ \E i \in 1..Len(calls) : DeleteCollectionDone(i) /\ UNCHANGED uiVars

SpecLazy == InitLazy /\ [][NextLazy]_vars

\* C23: a collection gets an entry in collectionRequests only in the step
\* that applies a successful list of its requests: no other step adds a key.
C23_AbsenceMeansNotFetched ==
    [][\A c \in CacheKeys(collectionRequests') \ CacheKeys(collectionRequests) :
          /\ ev'.op = "loadCollectionRequests"
          /\ ev'.ok
          /\ ev'.collectionId = c]_vars

\* how often request r is listed in the buckets of cr
RECURSIVE Occurrences(_, _)
Occurrences(cr, r) ==
    IF cr = <<>> THEN 0
    ELSE Len(SelectSeq(Head(cr).requests, LAMBDA q : q.id = r))
         + Occurrences(Tail(cr), r)

\* C24: every request id is listed at most once in all of collectionRequests:
\* in at most one bucket and at most once in it.
C24_CachedUnderOneCollection ==
    \A r \in ReqIds : Occurrences(collectionRequests, r) <= 1

(***************************************************************************)
(* SpecSync: tabs against the backend.  Collection A holds R1 and its      *)
(* bucket is fetched; A is selected, which shows its overview, and         *)
(* requests are opened from the overview, edited and saved.                *)
(***************************************************************************)
InitSync ==
    /\ InitStore
    /\ dbCollections = [c \in {"A"} |-> Coll("A", Null)]
    /\ dbRequests = [r \in {"R1"} |-> Req(r, "A")]
    /\ collections = DbListCollections(dbCollections)
    /\ collectionRequests =
          <<[key |-> "A", requests |-> DbListRequests(dbRequests, "A")]>>

NextSync ==
    \/ Len(calls) < MaxLoads /\ HandleSelectCollection("A")
    \/ \E i \in 1..Len(ReqOrder) : OverviewRequestClick(i)
    \/ \E t \in 1..MaxTabIds : TabClick(t)
    \/ \E u \in DraftEdits : EditRequest(u)
    \/ /\ Len(calls) < MaxLoads
       /\ ActiveTab # <<>>
       /\ HandleSave(ActiveTab[1].request.name,
                     ActiveTab[1].request.collection_id)
    \/ \E i \in 1..Len(calls) : BackendOk(i)
    \/ \E i \in 1..Len(calls) : BackendErr(i)
    \/ \E i \in 1..Len(calls) : SaveRequestDone(i) /\ UNCHANGED uiVars
    \/ \E i \in 1..Len(calls) :
          LoadCollectionRequestsDone(i) /\ UNCHANGED uiVars

SpecSync == InitSync /\ [][NextSync]_vars

\* C25: a tab with saved = true holds the request the backend has under the
\* tab's request id, field by field; stated for the states with no backend
\* call in flight, where no response is still to be applied.
C25_SavedInSync ==
    calls = <<>> =>
       \A i \in 1..Len(tabs) :
          tabs[i].saved =>
             /\ tabs[i].request.id \in DOMAIN dbRequests
             /\ tabs[i].request = dbRequests[tabs[i].request.id]

(***************************************************************************)
(* The active environment.                                                 *)
(***************************************************************************)
\* setActiveEnvironment up to the await
SetActiveEnvironmentCall(id) ==
    /\ calls' = Append(calls, Invoke("set_active_environment",
                                     "setActiveEnvironment", [id |-> id]))
    /\ ev' = [op |-> "setActiveEnvironmentCall", id |-> id]
    /\ UNCHANGED <<storeVars, idCounter, dbVars>>

\* after the await: the active environment becomes the element of the list
\* read now that has the id, or null; the list is left alone; an error is
\* rethrown
SetActiveEnvironmentDone(i) ==
    /\ i \in 1..Len(calls)
    /\ calls[i].k = "setActiveEnvironment"
    /\ calls[i].st \in {"ok", "err"}
    /\ activeEnvironment' =
          IF calls[i].st = "err" THEN activeEnvironment
          ELSE IF calls[i].arg.id = Null THEN <<>>
          ELSE LET found == SelectSeq(environments,
                                LAMBDA env : env.id = calls[i].arg.id)
               IN IF found = <<>> THEN <<>> ELSE <<found[1]>>
    /\ calls' = RemoveAt(calls, i)
    /\ ev' = [op |-> "setActiveEnvironment", ok |-> (calls[i].st = "ok"),
              threw |-> (calls[i].st = "err")]
    /\ UNCHANGED <<tabs, activeTabId, selectedCollectionId, collections,
                   collectionRequests, collectionsLoading,
                   collectionRequestsLoading, environments, history,
                   environmentsLoading, historyLoading, idCounter, dbVars>>

\* updateEnvironment up to the await
UpdateEnvironmentCall(id, name) ==
    /\ calls' = Append(calls, Invoke("update_environment", "updateEnvironment",
                                     [id |-> id, name |-> name]))
    /\ ev' = [op |-> "updateEnvironmentCall", id |-> id]
    /\ UNCHANGED <<storeVars, idCounter, dbVars>>

\* after the await: the returned environment replaces the element with the
\* id, and the active environment when that has the id; an error is rethrown
UpdateEnvironmentDone(i) ==
    /\ i \in 1..Len(calls)
    /\ calls[i].k = "updateEnvironment"
    /\ calls[i].st \in {"ok", "err"}
    /\ IF calls[i].st = "ok"
       THEN /\ environments' =
                  [j \in 1..Len(environments) |->
                      IF environments[j].id = calls[i].arg.id
                      THEN calls[i].res ELSE environments[j]]
            /\ activeEnvironment' =
                  IF activeEnvironment # <<>>
                     /\ activeEnvironment[1].id = calls[i].arg.id
                  THEN <<calls[i].res>> ELSE activeEnvironment
       ELSE UNCHANGED <<environments, activeEnvironment>>
    /\ calls' = RemoveAt(calls, i)
    /\ ev' = [op |-> "updateEnvironment", ok |-> (calls[i].st = "ok"),
              threw |-> (calls[i].st = "err")]
    /\ UNCHANGED <<tabs, activeTabId, selectedCollectionId, collections,
                   collectionRequests, collectionsLoading,
                   collectionRequestsLoading, history, environmentsLoading,
                   historyLoading, idCounter, dbVars>>

\* the environments as the store holds them after loadEnvironments: the
\* backend's one environment, which is the active one
InitEnv ==
    /\ tabs = <<>>
    /\ activeTabId = NoTab
    /\ idCounter = 0
    /\ selectedCollectionId = Null
    /\ collections = <<>>
    /\ collectionRequests = <<>>
    /\ collectionsLoading = FALSE
    /\ collectionRequestsLoading = NoLoading
    /\ dbCollections = <<>>
    /\ dbRequests = <<>>
    /\ dbIds = 0
    /\ dbHistory = <<>>
    /\ dbEnvironments = [e \in {"E1"} |-> Env(e, "dev", TRUE)]
    /\ environments = DbListEnvironments(dbEnvironments)
    /\ activeEnvironment = DbActiveEnvironment(dbEnvironments)
    /\ history = <<>>
    /\ environmentsLoading = FALSE
    /\ historyLoading = FALSE
    /\ calls = <<>>
    /\ ev = [op |-> "init"]
    /\ InitSidebar

\* the environment actions, up to MaxCalls of them in flight together
NextEnv ==
    \/ /\ Len(calls) < MaxCalls
       /\ \/ LoadEnvironmentsCall
          \/ CreateEnvironmentCall("dev")
          \/ \E id \in {environments[j].id : j \in 1..Len(environments)}
                        \cup {Null} :
                SetActiveEnvironmentCall(id)
          \/ \E j \in 1..Len(environments) :
                \/ UpdateEnvironmentCall(environments[j].id, "dev")
                \/ DeleteEnvironmentCall(environments[j].id)
       /\ UNCHANGED uiVars
    \/ \E i \in 1..Len(calls) :
          \/ BackendOk(i)
          \/ BackendErr(i)
          \/ /\ \/ LoadEnvironmentsDone(i)
                \/ CreateEnvironmentDone(i)
                \/ SetActiveEnvironmentDone(i)
                \/ UpdateEnvironmentDone(i)
                \/ DeleteEnvironmentDone(i)
             /\ UNCHANGED uiVars

SpecEnv == InitEnv /\ [][NextEnv]_vars

\* C26: in every state at most one element of environments is flagged
\* active, and activeEnvironment is null or has the id of an element of
\* environments
C26_ActiveEnvironmentCoherence ==
    /\ Cardinality({j \in 1..Len(environments) :
                       environments[j].is_active}) <= 1
    /\ activeEnvironment = <<>>
       \/ \E j \in 1..Len(environments) :
             environments[j].id = activeEnvironment[1].id

\* the second part of C26 alone, in states with no call outstanding
C26_ActiveIsListed ==
    calls = <<>> =>
       \/ activeEnvironment = <<>>
       \/ \E j \in 1..Len(environments) :
             environments[j].id = activeEnvironment[1].id

(***************************************************************************)
(* C27  Auth resolution terminates.  For every collection list, one whose  *)
(* parent_id pointers form a cycle among collections without usable auth   *)
(* included, the computation of a request's collection auth headers in     *)
(* sendRequest ends (at a collection with usable auth, at a collection     *)
(* with no parent, or at a collection already visited) instead of          *)
(* recursing until the call stack overflows.                               *)
(***************************************************************************)
C27_AuthResolutionTerminates ==
    [][ev'.op = "sendRequestCall" => ev'.threw # StackOverflow]_vars

(***************************************************************************)
(* The active tab under the actions that open and close tabs.              *)
(***************************************************************************)
\* collection A with its folder B, a request in each, both buckets fetched,
\* no tab open
InitActive ==
    /\ InitStore
    /\ dbCollections = [c \in {"A", "B"} |->
                           Coll(c, IF c = "B" THEN "A" ELSE Null)]
    /\ dbRequests = [r \in ReqIds |-> Req(r, IF r = "R1" THEN "A" ELSE "B")]
    /\ collections = DbListCollections(dbCollections)
    /\ collectionRequests =
          <<[key |-> "A", requests |-> DbListRequests(dbRequests, "A")],
            [key |-> "B", requests |-> DbListRequests(dbRequests, "B")]>>

\* addTab, closeTab, setActiveTab, saveRequest, deleteRequest and
\* deleteCollection: a call is started when none is in flight, and tabs are
\* opened, closed and selected while it is; nothing runs between the two set
\* calls of deleteRequest
NextActive ==
    \/ /\ ~Applying
       /\ \/ NewRequestClick
          \/ \E k \in CollIds : HandleLoadRequest(k, 1)
          \/ \E t \in 1..MaxTabIds : CloseTabClick(t)
          \/ \E t \in 1..MaxTabIds : TabClick(t)
          \/ /\ activeTabId # NoTab
             /\ SetActiveTab(NoTab)
             /\ UNCHANGED <<tabs, selectedCollectionId, collections,
                            collectionRequests, collectionsLoading,
                            collectionRequestsLoading, envVars, idCounter,
                            dbVars, calls, uiVars>>
          \/ /\ MayCall
             /\ ActiveTab # <<>>
             /\ ActiveTab[1].request.collection_id # Null
             /\ HandleSave(ActiveTab[1].name,
                           ActiveTab[1].request.collection_id)
          \/ \E c \in CollIds :
                /\ MayCall
                /\ \/ \E r \in BucketIds(collectionRequests, c) :
                         DeleteRequestCall(r, c)
                   \/ Listed(c) /\ DeleteCollectionCall(c)
                /\ UNCHANGED uiVars
          \/ \E i \in 1..Len(calls) :
                \/ BackendOk(i)
                \/ BackendErr(i)
                \/ /\ \/ SaveRequestDone(i)
                      \/ LoadCollectionRequestsDone(i)
                      \/ DeleteRequestDone(i)
                      \/ DeleteCollectionDone(i)
                   /\ UNCHANGED uiVars
    \/ \E i \in 1..Len(calls) : DeleteRequestClose(i) /\ UNCHANGED uiVars

SpecActive == InitActive /\ [][NextActive]_vars

\* C28: in every state activeTabId is null or the id of a tab in tabs, and
\* addTab appends the new tab, with an id no open tab has, and makes it the
\* active tab
C28_ActiveTabValid ==
    /\ activeTabId \in TabIds(tabs) \cup {NoTab}
    /\ [][/\ activeTabId' \in TabIds(tabs') \cup {NoTab}
          /\ ev'.op = "addTab" =>
                /\ Len(tabs') = Len(tabs) + 1
                /\ SubSeq(tabs', 1, Len(tabs)) = tabs
                /\ tabs'[Len(tabs')].id = ev'.tabId
                /\ ev'.tabId \notin TabIds(tabs)
                /\ activeTabId' = ev'.tabId]_vars

\* deleteRequest has closed the active tab, the first of three, and the tab
\* that took its place is active
C28_Witness ==
    /\ ev.op = "deleteRequest"
    /\ ev.ok
    /\ Len(tabs) = 2
    /\ activeTabId = tabs[1].id
    /\ activeTabId # 1
    /\ \A i \in 1..Len(tabs) : tabs[i].request.id # ev.requestId
    /\ idCounter = 3

(***************************************************************************)
(* A deleted collection and the calls in flight around its deletion.       *)
(***************************************************************************)
\* the one collection C, loaded; no request and no tab
InitGone ==
    /\ InitStore
    /\ dbCollections = [c \in {"C"} |-> Coll(c, Null)]
    /\ dbRequests = <<>>
    /\ collections = DbListCollections(dbCollections)
    /\ collectionRequests = <<>>

\* whether a createCollection is in flight
Creating == \E i \in 1..Len(calls) : calls[i].k = "createCollection"

\* up to MaxCalls calls in flight together: the list is reloaded, C is
\* renamed, given an auth configuration, moved to the top level and deleted
\* while the Sidebar lists it, and one collection is created, which gets an
\* id other than C's
NextGone ==
    \/ /\ Len(calls) < MaxCalls
       /\ \/ LoadCollectionsCall
          \/ /\ ~Creating
             /\ DbNextCollectionId([c \in {"C"} |-> Coll(c, Null)])
                   \notin DOMAIN dbCollections
             /\ CreateCollectionCall("new", Null)
          \/ /\ Listed("C")
             /\ \/ RenameCollectionCall("C", "renamed")
                \/ UpdateCollectionAuthCall("C", Auth("bearer", <<>>, <<>>, "T"))
                \/ MoveCollectionCall("C", Null)
                \/ DeleteCollectionCall("C")
       /\ UNCHANGED uiVars
    \/ \E i \in 1..Len(calls) :
          \/ BackendOk(i)
          \/ BackendErr(i)
          \/ /\ \/ LoadCollectionsDone(i)
                \/ CreateCollectionDone(i)
                \/ RenameCollectionDone(i)
                \/ UpdateCollectionAuthDone(i)
                \/ MoveCollectionDone(i)
                \/ DeleteCollectionDone(i)
             /\ UNCHANGED uiVars

SpecGone == InitGone /\ [][NextGone]_vars

\* C29: once deleteCollection(c) has resolved successfully, c is in
\* collections in no later state, whatever calls were in flight when it
\* resolved; stated for the first of those states: the step taken from the
\* state the delete resolved in does not put c back
C29_DeletedStaysGone ==
    [][\A c \in CollIds :
          (ev.op = "deleteCollection" /\ ev.ok /\ ev.id = c) =>
             c \notin CollectionIds(collections')]_vars

(***************************************************************************)
(* C30  Edits made during a save are kept.  When a saveRequest for a tab   *)
(* resolves successfully and the tab's draft was changed by                *)
(* updateTabRequest while the save was in flight (the draft differs from   *)
(* what the save sent), the tab's draft still has that edit afterwards and *)
(* the tab has saved = false.                                              *)
(***************************************************************************)
C30_EditsDuringSaveKept ==
    [][(ev'.op = "saveRequest" /\ ev'.ok) =>
          \A i \in 1..Len(calls) :
             (calls[i].k = "saveRequest" /\ calls[i].st = "ok"
              /\ calls[i].arg.tabId = ev'.tabId) =>
                \A j \in 1..Len(tabs) :
                   (tabs[j].id = ev'.tabId
                    /\ tabs[j].request.url # calls[i].arg.payload.url) =>
                      /\ tabs'[j].request.url = tabs[j].request.url
                      /\ ~tabs'[j].saved]_vars

=============================================================================
